---- MODULE Spec2Model ----
(***************************************************************************)
(* Turn orchestrator of the wargame engine (src/engine/turn.py) with the   *)
(* unit state model (src/engine/units.py), the intelligence store          *)
(* (src/engine/fog_of_war.py) and the effects the eight domain resolvers   *)
(* (src/engine/combat/*.py) have on the shared state.                      *)
(*                                                                         *)
(* Random draws of the resolvers (hit checks, rolls) are nondeterministic  *)
(* choices over small sets of the values the code can produce.  Orders are *)
(* inputs: every mission is drawn when its resolver is called, which gives *)
(* the same behaviours as drawing the whole order bundle when the turn     *)
(* starts, since the eight order lists are independent of the state.       *)
(* Percentages (organization, morale, supply, degradations) are integers.  *)
(***************************************************************************)
EXTENDS Integers, Sequences, FiniteSets, TLC

VARIABLES
    units,                  \* UnitManager.units: id -> runtime state of the unit
    game_state,             \* TurnManager.game_state (GameState)
    current_turn,           \* TurnManager.current_turn (TurnState or NoTurn)
    current_ew_effects,     \* TurnManager.current_ew_effects: key -> value
    destroyed_units_counted,\* TurnManager._destroyed_units_counted
    india_intel,            \* FogOfWar.india_intel: unit id -> IntelReport
    pakistan_intel,         \* FogOfWar.pakistan_intel
    pc,                     \* position inside execute_full_turn: "idle", a phase name, "end"
    cursor,                 \* position inside the running phase's mission loops
    reports,                \* the running phase's local list `reports`
    phase_trace,            \* phases whose execute_phase call ran in this turn, in order
    last_call,              \* the resolver call made by the last step (its arguments, its result)
    vp_calls,               \* calls of _calculate_victory_points in the current turn
    bonus_credits,          \* unit id -> times its destruction bonus was added
    order_lists,            \* the kinds of mission the players' order bundles hold
    reports_left,           \* combat reports the missions of the game may still produce
    stat_tables,            \* the resolvers' class-level stat tables (DRONE_STATS, ...)
    fn_args,                \* a resolver or helper called on its own: its arguments
    fn_result,              \* ... and what it returned (NoResult before the call)
    hex_map                 \* HexMap: is_night and the WeatherState of the map

vars == << units, game_state, current_turn, current_ew_effects,
           destroyed_units_counted, india_intel, pakistan_intel, pc, cursor,
           reports, phase_trace, last_call, vp_calls, bonus_credits, order_lists,
           reports_left, stat_tables, fn_args, fn_result, hex_map >>

\* what a step of execute_full_turn leaves alone: the order bundles of the
\* games played carry no stat overrides, and no helper is called on its own
resolver_vars == << stat_tables, fn_args, fn_result >>

(***************************************************************************)
(* Bounds of the model.                                                    *)
(***************************************************************************)
TurnCap == 2        \* execute_full_turn is called at most this many times
MaxReports == 2     \* combat reports the missions of a game may produce
MaxLoss == 3        \* largest loss or mission size drawn (above every strength_max)
MaxVpCalls == 2     \* calls of _calculate_victory_points per turn

(***************************************************************************)
(* Enumerations.                                                           *)
(***************************************************************************)
Factions == {"india", "pakistan"}

Enemy(faction) == IF faction = "india" THEN "pakistan" ELSE "india"

PHASES == << "intelligence", "missiles", "ew", "air", "drones", "artillery",
             "helicopters", "ground", "special_forces", "logistics", "recovery" >>

NumPhases == Len(PHASES)

TimesOfDay == << "dawn", "day", "dusk", "night" >>

CombatResults == {"decisive_victory", "victory", "marginal", "stalemate",
                  "defeat", "decisive_defeat"}

(***************************************************************************)
(* The unit table after scenario load: one missile battery for India and   *)
(* one long-range SAM unit for Pakistan.  "ghost" is an id no unit has.    *)
(***************************************************************************)
UnitIds == {"i_msl", "p_sam"}

UnitFaction(u) == IF u = "i_msl" THEN "india" ELSE "pakistan"

UnitCategory(u) == IF u = "i_msl" THEN "missile" ELSE "air_defense"

IsMissileBattery(u) == u = "i_msl"

strength_max(u) == 2

reload_time_turns == 4

InitialMissiles(u) == IF IsMissileBattery(u) THEN 4 ELSE 0

InitUnit(u) ==
    [ strength_current |-> strength_max(u), organization |-> 100, morale |-> 85,
      supply_level |-> 100, last_combat_turn |-> -1, status |-> "ready",
      missiles_remaining |-> InitialMissiles(u), turns_until_reload |-> 0 ]

Max(a, b) == IF a >= b THEN a ELSE b

Min(a, b) == IF a <= b THEN a ELSE b

(***************************************************************************)
(* Unit methods (src/engine/units.py).  Each takes and returns the unit's  *)
(* state record.                                                           *)
(***************************************************************************)
is_combat_effective(s) ==
    /\ s.status \notin {"destroyed", "retreating"}
    /\ s.strength_current > 0
    /\ s.organization >= 20

\* loss_ratio * 20 with loss_ratio = casualties / max(1, strength_max)
MoraleLoss(casualties, smax) == (casualties * 20) \div Max(1, smax)

TakeLossesStatus(s1) ==
    IF s1.strength_current <= 0 THEN "destroyed"
    ELSE IF s1.organization < 15 \/ s1.morale < 15 THEN "retreating"
    ELSE s1.status

\* take_losses without the floor at zero on strength_current
take_losses_uncapped(s, smax, casualties, organization_loss) ==
    LET s1 == [ s EXCEPT
                  !.strength_current = s.strength_current - casualties,
                  !.organization = Max(0, s.organization - organization_loss),
                  !.morale = Max(0, s.morale - MoraleLoss(casualties, smax)) ]
    IN  [ s1 EXCEPT !.status = TakeLossesStatus(s1) ]

take_losses(s, smax, casualties, organization_loss) ==
    LET s1 == [ s EXCEPT
                  !.strength_current = Max(0, s.strength_current - casualties),
                  !.organization = Max(0, s.organization - organization_loss),
                  !.morale = Max(0, s.morale - MoraleLoss(casualties, smax)) ]
    IN  [ s1 EXCEPT !.status = TakeLossesStatus(s1) ]

recover(s, turn_number) ==
    LET org == IF s.last_combat_turn < turn_number - 1
               THEN Min(100, s.organization + 5) ELSE s.organization
        mor == IF s.morale < 50 THEN Min(50, s.morale + 3) ELSE s.morale
    IN  [ s EXCEPT !.organization = org, !.morale = mor ]

\* consume_supply that draws nothing from the unit's supply
consume_supply_free(s, combat) == s

consume_supply(s, combat) ==
    [ s EXCEPT !.supply_level = Max(0, s.supply_level - (IF combat THEN 15 ELSE 5)) ]

can_fire(s) ==
    /\ s.missiles_remaining > 0
    /\ s.turns_until_reload <= 0
    /\ is_combat_effective(s)

\* fire_missile that does not start the reload cooldown
fire_missile_without_cooldown(s, count) ==
    [ s EXCEPT !.missiles_remaining = s.missiles_remaining - Min(count, s.missiles_remaining) ]

fire_missile(s, count) ==
    [ s EXCEPT !.missiles_remaining = s.missiles_remaining - Min(count, s.missiles_remaining),
               !.turns_until_reload = reload_time_turns ]

get_unit(id) == IF id \in UnitIds THEN id ELSE "none"


EmptyMap == [ k \in {} |-> 0 ]

Put(m, k, v) == [ x \in DOMAIN m \cup {k} |-> IF x = k THEN v ELSE m[x] ]

Get(m, k, default) == IF k \in DOMAIN m THEN m[k] ELSE default

(***************************************************************************)
(* Intelligence store (src/engine/fog_of_war.py).  A database maps every   *)
(* unit id to its IntelReport, or to NoIntel where dict.get returns None.  *)
(***************************************************************************)
IntelQualities == {"none", "suspected", "detected", "identified", "confirmed"}

NoIntel == [ quality |-> "absent", last_updated |-> 0 ]

\* IntelQuality.X.value is the lower-case name, a string: the code compares
\* these strings, and Python orders strings by their characters.  The five
\* values differ in their first letter, whose place in the alphabet decides.
QualityValueOrd(q) ==
    CASE q = "confirmed" -> 3
      [] q = "detected" -> 4
      [] q = "identified" -> 9
      [] q = "none" -> 14
      [] q = "suspected" -> 19

INTEL_DECAY(q) ==
    CASE q = "confirmed" -> "identified"
      [] q = "identified" -> "detected"
      [] q = "detected" -> "suspected"
      [] OTHER -> "none"

get_faction_intel(faction) == IF faction = "india" THEN india_intel ELSE pakistan_intel

\* FogOfWar.add_manual_intel: the database after the call
add_manual_intel(db, unit_id, quality, turn) ==
    LET existing == db[unit_id]
    IN  IF existing = NoIntel
           \/ QualityValueOrd(quality) > QualityValueOrd(existing.quality)
        THEN [ db EXCEPT ![unit_id] = [ quality |-> quality, last_updated |-> turn ] ]
        ELSE db

\* FogOfWar.process_detection_turn, the update of one enemy's record with the
\* best detection the sensors achieved ("none": no sensor detected it)
DetectionWrite(db, unit_id, best_detection, turn) ==
    LET existing == db[unit_id]
    IN  IF best_detection # "none"
           /\ ( existing = NoIntel
                \/ QualityValueOrd(best_detection) >= QualityValueOrd(existing.quality) )
        THEN [ db EXCEPT ![unit_id] = [ quality |-> best_detection, last_updated |-> turn ] ]
        ELSE db

\* The sensor lists start empty and add_sensor has no caller, and units are
\* created with Location(): no sensor is in range of any enemy, the loop over
\* the sensors leaves best_detection at IntelQuality.NONE.
BestDetections(observing_faction, unit_id) == {"none"}

\* FogOfWar.decay_intel for one record
DecayRecord(r, turn) ==
    IF r = NoIntel \/ turn - r.last_updated < 4 THEN r
    ELSE IF INTEL_DECAY(r.quality) = "none" THEN NoIntel
    ELSE [ r EXCEPT !.quality = INTEL_DECAY(r.quality) ]

decay_intel(db, turn) == [ u \in DOMAIN db |-> DecayRecord(db[u], turn) ]

(***************************************************************************)
(* Turn and game records (src/engine/turn.py).                             *)
(***************************************************************************)
PhaseNames == { PHASES[i] : i \in 1..NumPhases }

NoTurn ==
    [ turn_number |-> 0, day |-> 0, time_of_day |-> "none", current_phase |-> "none",
      phase_complete |-> [ p \in PhaseNames |-> FALSE ],
      combat_reports |-> << >>, units_in_combat |-> {} ]

get_time_of_day(turn) == TimesOfDay[(turn % 4) + 1]

get_day_number(turn) == (turn \div 4) + 1

(***************************************************************************)
(* The map's weather and time of day (src/engine/map.py).  A modifier is   *)
(* an integer number of 1/ModifierOne.                                     *)
(***************************************************************************)
ModifierOne == 100000

Weathers == { "clear", "cloudy", "rain", "storm", "fog", "sandstorm" }

\* weather_effects of set_weather: (visibility, air operations, movement)
weather_effects(weather) ==
    CASE weather = "clear"     -> << 100000, 100000, 100000 >>
      [] weather = "cloudy"    -> << 80000, 90000, 100000 >>
      [] weather = "rain"      -> << 50000, 50000, 80000 >>
      [] weather = "storm"     -> << 20000, 10000, 50000 >>
      [] weather = "fog"       -> << 10000, 20000, 90000 >>
      [] weather = "sandstorm" -> << 10000, 10000, 60000 >>
      [] OTHER                 -> << 100000, 100000, 100000 >>

\* HexMap.__init__: is_night False and a default WeatherState
HexMapInit ==
    [ is_night |-> FALSE, weather |-> "clear", visibility_modifier |-> ModifierOne,
      air_ops_modifier |-> ModifierOne, movement_modifier |-> ModifierOne ]

set_weather(hm, weather) ==
    [ hm EXCEPT !.weather = weather,
                !.visibility_modifier = weather_effects(weather)[1],
                !.air_ops_modifier = weather_effects(weather)[2],
                !.movement_modifier = weather_effects(weather)[3] ]

\* the night penalty multiplies the modifiers the map holds at the moment
set_time_of_day(hm, is_night) ==
    IF is_night
    THEN [ hm EXCEPT !.is_night = TRUE,
                     !.visibility_modifier = (hm.visibility_modifier * 3) \div 10,
                     !.air_ops_modifier = (hm.air_ops_modifier * 7) \div 10 ]
    ELSE [ hm EXCEPT !.is_night = FALSE ]


\* the TurnState start_turn creates for the turn numbered `turn`
TurnState(turn) ==
    [ turn_number |-> turn,
      day |-> get_day_number(turn),
      time_of_day |-> get_time_of_day(turn - 1),
      current_phase |-> "intelligence",
      phase_complete |-> [ p \in PhaseNames |-> FALSE ],
      combat_reports |-> << >>,
      units_in_combat |-> {} ]

NoCall ==
    [ op |-> "none", faction |-> "none", unit_known |-> FALSE, target_known |-> FALSE,
      returned |-> FALSE ]

\* a resolver call: the faction whose order it resolves, whether the ids the
\* order names are in the unit table, and whether it returned a report
Call(op, faction, unit_id, target_id, returned) ==
    [ op |-> op, faction |-> faction, unit_known |-> unit_id \in UnitIds,
      target_known |-> target_id \in UnitIds, returned |-> returned ]

\* A combat report: the fields the victory-point calculation reads.
Report(phase, attacker_id, result, faction) ==
    [ phase |-> phase, attacker_id |-> attacker_id, result |-> result ]

(***************************************************************************)
(* Class-level stat tables of the resolvers (src/engine/combat/*.py): the  *)
(* rows of the unit types the missions below fly, with the stats the       *)
(* resolvers read from them.                                               *)
(***************************************************************************)
DRONE_STATS ==
    [ harop |-> [ type |-> "loitering", damage |-> 80, accuracy |-> 85, stealth |-> 60 ],
      mq9 |-> [ type |-> "ucav", damage |-> 75, accuracy |-> 80, stealth |-> 45,
                weapons |-> 4 ] ]

HELICOPTER_STATS ==
    [ apache |-> [ attack |-> 90, defense |-> 60, armor_pen |-> 85 ] ]

\* SpecialForcesCombat.SF_STATS (a TLA+ name cannot start with SF_)
SPECIAL_FORCES_STATS ==
    [ para_sf |-> [ skill |-> 90, stealth |-> 85, firepower |-> 70 ] ]

BuiltInTables ==
    [ DRONE_STATS |-> DRONE_STATS, HELICOPTER_STATS |-> HELICOPTER_STATS,
      SPECIAL_FORCES_STATS |-> SPECIAL_FORCES_STATS ]

\* dict.update: the keys of `overrides` written over `stats`
update(stats, overrides) ==
    [ k \in DOMAIN stats \cup DOMAIN overrides |->
        IF k \in DOMAIN overrides THEN overrides[k] ELSE stats[k] ]

NoArgs == [ fn |-> "none" ]

NoResult == [ fn |-> "none" ]

\* The kinds of mission the eight order lists can hold.
MissionKinds ==
    { "missile_strike", "ew_jam", "ew_cyber", "ew_sigint", "air_cap", "air_strike",
      "drone_isr", "drone_sead", "drone_strike", "artillery", "helicopter_attack",
      "helicopter_air_assault", "ground", "sf_recon", "sf_raid" }

\* The games played: the scenario's duration with order bundles that hold
\* missions of one kind with one report in all, or missions of kinds that work
\* on each other's results with MaxReports reports in a game of full length.
\* A missile battery is loaded with launchers * missiles_per_launcher
\* missiles: four by default, a single one for a one-missile launcher.
Scenarios ==
    { [ lists |-> {k}, reports |-> MaxReports - 1, max_turns |-> m, missiles |-> 4 ] :
        k \in MissionKinds, m \in 1..TurnCap }
    \cup { [ lists |-> {"missile_strike"}, reports |-> MaxReports - 1, max_turns |-> m,
              missiles |-> 1 ] : m \in 1..TurnCap }
    \cup { [ lists |-> l, reports |-> MaxReports, max_turns |-> TurnCap, missiles |-> 4 ] :
             l \in { {"artillery", "ground"}, {"sf_recon", "ew_sigint"},
                     {"sf_recon", "drone_isr"}, {"missile_strike", "ew_jam"},
                     {"air_cap", "air_strike"} } }

\* The game after set-up: initialize_game, then the scenario's duration_turns
\* written to max_turns (src/game.py:111).
Init ==
    /\ \E sc \in Scenarios :
          /\ units = [ u \in UnitIds |->
                         [ InitUnit(u) EXCEPT
                             !.missiles_remaining =
                                IF IsMissileBattery(u) THEN sc.missiles ELSE 0 ] ]
          /\ game_state = [ turn |-> 0, max_turns |-> sc.max_turns, india_vp |-> 0,
                            pakistan_vp |-> 0, game_over |-> FALSE, winner |-> "none",
                            turn_history |-> << >> ]
          /\ order_lists = sc.lists
          /\ reports_left = sc.reports
    /\ current_turn = NoTurn
    /\ current_ew_effects = EmptyMap
    /\ destroyed_units_counted = {}
    /\ india_intel = [ u \in UnitIds |-> NoIntel ]
    /\ pakistan_intel = [ u \in UnitIds |-> NoIntel ]
    /\ pc = "idle"
    /\ cursor = 0
    /\ reports = << >>
    /\ phase_trace = << >>
    /\ last_call = NoCall
    /\ vp_calls = 0
    /\ bonus_credits = [ u \in UnitIds |-> 0 ]
    /\ stat_tables = BuiltInTables
    /\ fn_args = NoArgs
    /\ fn_result = NoResult
    /\ hex_map = HexMapInit


(***************************************************************************)
(* Steps of execute_full_turn (src/engine/turn.py).                        *)
(***************************************************************************)
UnitsOfFaction(faction) == { u \in UnitIds : UnitFaction(u) = faction }

\* start_turn without the reset of the per-turn EW state
start_turn_keeping_effects ==
    /\ UNCHANGED resolver_vars
    /\ pc = "idle"
    /\ game_state.turn < TurnCap
    /\ game_state' = [ game_state EXCEPT !.turn = game_state.turn + 1 ]
    /\ hex_map' = set_time_of_day(hex_map, get_time_of_day(game_state.turn) = "night")
    /\ current_turn' =
          TurnState(game_state.turn + 1)
    /\ pc' = PHASES[1]
    /\ cursor' = 0
    /\ reports' = << >>
    /\ phase_trace' = << >>
    /\ last_call' = NoCall
    /\ vp_calls' = 0
    /\ UNCHANGED << units, destroyed_units_counted, india_intel, pakistan_intel,
                    bonus_credits, order_lists, reports_left, current_ew_effects >>

start_turn ==
    /\ UNCHANGED resolver_vars
    /\ pc = "idle"
    /\ game_state.turn < TurnCap
    /\ game_state' = [ game_state EXCEPT !.turn = game_state.turn + 1 ]
    /\ hex_map' = set_time_of_day(hex_map, get_time_of_day(game_state.turn) = "night")
    /\ current_turn' =
          TurnState(game_state.turn + 1)
    /\ current_ew_effects' = EmptyMap
    /\ pc' = PHASES[1]
    /\ cursor' = 0
    /\ reports' = << >>
    /\ phase_trace' = << >>
    /\ last_call' = NoCall
    /\ vp_calls' = 0
    /\ UNCHANGED << units, destroyed_units_counted, india_intel, pakistan_intel,
                    bonus_credits, order_lists, reports_left >>

\* execute_phase that forgets to mark the phase complete
PhaseDone_unmarked(k, phase_reports) ==
    /\ UNCHANGED << resolver_vars, hex_map >>
    /\ current_turn' =
          [ current_turn EXCEPT
              !.current_phase = PHASES[k],
              !.combat_reports = current_turn.combat_reports \o phase_reports ]
    /\ phase_trace' = Append(phase_trace, PHASES[k])
    /\ pc' = IF k < NumPhases THEN PHASES[k + 1] ELSE "end"
    /\ cursor' = 0
    /\ reports' = << >>
    /\ last_call' = NoCall

\* execute_phase after the phase's own routine returned `phase_reports`:
\* mark the phase complete, extend the turn's report list, go to the next phase
PhaseDone(k, phase_reports) ==
    /\ UNCHANGED << resolver_vars, hex_map >>
    /\ current_turn' =
          [ current_turn EXCEPT
              !.current_phase = PHASES[k],
              !.phase_complete = [ current_turn.phase_complete EXCEPT ![PHASES[k]] = TRUE ],
              !.combat_reports = current_turn.combat_reports \o phase_reports ]
    /\ phase_trace' = Append(phase_trace, PHASES[k])
    /\ pc' = IF k < NumPhases THEN PHASES[k + 1] ELSE "end"
    /\ cursor' = 0
    /\ reports' = << >>
    /\ last_call' = NoCall

\* _execute_intelligence_phase: detection for both factions, then decay
execute_intelligence_phase ==
    /\ pc = PHASES[1]
    /\ \E bi \in [ UnitsOfFaction("pakistan") -> IntelQualities ],
          bp \in [ UnitsOfFaction("india") -> IntelQualities ] :
          /\ \A u \in DOMAIN bi : bi[u] \in BestDetections("india", u)
          /\ \A u \in DOMAIN bp : bp[u] \in BestDetections("pakistan", u)
          /\ LET di == [ u \in UnitIds |->
                           IF u \in DOMAIN bi
                           THEN DetectionWrite(india_intel, u, bi[u], game_state.turn)[u]
                           ELSE india_intel[u] ]
                 dp == [ u \in UnitIds |->
                           IF u \in DOMAIN bp
                           THEN DetectionWrite(pakistan_intel, u, bp[u], game_state.turn)[u]
                           ELSE pakistan_intel[u] ]
             IN  /\ india_intel' = decay_intel(di, game_state.turn)
                 /\ pakistan_intel' = decay_intel(dp, game_state.turn)
    /\ PhaseDone(1, << >>)
    /\ UNCHANGED << units, game_state, current_ew_effects, destroyed_units_counted,
                    vp_calls, bonus_credits,
                    order_lists, reports_left >>


(***************************************************************************)
(* Mission loops.  One step resolves the next mission of the running       *)
(* phase's order lists: India's list is processed before Pakistan's.       *)
(***************************************************************************)
FactionRank(faction) == IF faction = "india" THEN 0 ELSE 1

\* a mission loop that appends the resolver's result without testing it: a
\* skipped mission leaves an empty report in the phase's list
MissionStep_unfiltered(phase, new_cursor, call, rep) ==
    /\ UNCHANGED << resolver_vars, hex_map >>
    /\ pc = phase
    /\ call.op \in order_lists
    /\ new_cursor >= cursor
    /\ Len(rep) <= reports_left
    /\ cursor' = new_cursor
    /\ reports' = reports \o (IF rep = << >>
                              THEN << Report(phase, "none", "none", call.faction) >>
                              ELSE rep)
    /\ reports_left' = reports_left - Len(rep)
    /\ last_call' = call
    /\ UNCHANGED << game_state, destroyed_units_counted, pc, phase_trace, vp_calls,
                    bonus_credits, order_lists >>

\* the part every mission step shares: `rep` is << >> when the resolver
\* returned None and the one-element list of its report otherwise
MissionStep(phase, new_cursor, call, rep) ==
    /\ UNCHANGED << resolver_vars, hex_map >>
    /\ pc = phase
    /\ call.op \in order_lists
    /\ new_cursor >= cursor
    /\ Len(rep) <= reports_left
    /\ cursor' = new_cursor
    /\ reports' = reports \o rep
    /\ reports_left' = reports_left - Len(rep)
    /\ last_call' = call
    /\ UNCHANGED << game_state, destroyed_units_counted, pc, phase_trace, vp_calls,
                    bonus_credits, order_lists >>

SetIntel(faction, db) ==
    /\ india_intel' = IF faction = "india" THEN db ELSE india_intel
    /\ pakistan_intel' = IF faction = "pakistan" THEN db ELSE pakistan_intel

\* the acting-unit ids a faction's orders name: its own units or an unknown id
ActingIds(faction) == UnitsOfFaction(faction) \cup {"ghost"}

\* the acting-unit ids an order of the missile, artillery or ground domain
\* names.  The order is a dict written by the player and may name any id at
\* all; the games with two kinds of mission are played with orders that name
\* the player's own units.
NamedIds(faction) ==
    IF Cardinality(order_lists) = 1 THEN UnitIds \cup {"ghost"} ELSE ActingIds(faction)

\* the target ids a faction's orders name: the enemy's units or an unknown id
TargetIds(faction) == UnitsOfFaction(Enemy(faction)) \cup {"ghost"}

\* sizes an order may give for a mission: the unit's strength (the default
\* when the order names none) or a number of its own
MissionSizes(default) == {default, MaxLoss}

\* samples of a loss count between 0 and cap
LossDraws(cap) == {0, cap}

\* the results a strike resolver grades its damage with
StrikeResults == {"decisive_victory", "victory", "marginal", "stalemate", "defeat"}

(***************************************************************************)
(* Missile phase.                                                          *)
(***************************************************************************)
FireableMissileUnits(faction) ==
    { u \in UnitIds : /\ UnitCategory(u) = "missile" /\ UnitFaction(u) = faction
                      /\ IsMissileBattery(u) /\ can_fire(units[u]) }

\* the battery _resolve_missile_strike works with: the named unit, else the
\* faction's first missile unit that can fire, else none
StrikeBattery(battery_id, faction) ==
    IF get_unit(battery_id) # "none" THEN battery_id
    ELSE IF FireableMissileUnits(faction) # {}
         THEN CHOOSE u \in FireableMissileUnits(faction) : TRUE
         ELSE "none"

\* ew_modifier of the strike, in percent: 1.0 - current_ew_effects.get(
\* f"{enemy}_radar_jam", 0)
StrikeEwModifier(faction) ==
    100 - Get(current_ew_effects, << Enemy(faction), "radar_jam" >>, 0)

\* the report of a strike, with the side it was fired at and the EW modifier
\* its interception was resolved with
MissileReport(battery, result, faction, missiles) ==
    [ phase |-> "missiles", attacker_id |-> battery, result |-> result,
      missiles_fired |-> missiles, defender_faction |-> Enemy(faction), ew_modifier |-> StrikeEwModifier(faction) ]

resolve_missile_strike ==
    \E faction \in Factions, count \in {1, MaxLoss} :
    \E battery_id \in NamedIds(faction), target_id \in TargetIds(faction) :
       LET battery == StrikeBattery(battery_id, faction)
           fires == battery # "none" /\ IsMissileBattery(battery) /\ can_fire(units[battery])
           missiles == Min(Max(2, count), units[battery].missiles_remaining)
       IN  IF ~fires
           THEN /\ MissionStep("missiles", FactionRank(faction),
                               Call("missile_strike", faction, battery_id, target_id, FALSE),
                               << >>)
                /\ UNCHANGED << units, current_turn, current_ew_effects, india_intel,
                                pakistan_intel >>
           ELSE \E result \in StrikeResults :
                /\ MissionStep("missiles", FactionRank(faction),
                               Call("missile_strike", faction, battery_id, target_id, TRUE),
                               << MissileReport(battery, result, faction, missiles) >>)
                /\ units' = [ units EXCEPT ![battery] = fire_missile(units[battery], missiles) ]
                /\ UNCHANGED << current_turn, current_ew_effects, india_intel,
                                pakistan_intel >>

execute_missile_phase_return ==
    /\ pc = "missiles"
    /\ PhaseDone(2, reports)
    /\ UNCHANGED << units, game_state, current_ew_effects, destroyed_units_counted,
                    india_intel, pakistan_intel, vp_calls, bonus_credits,
                    order_lists, reports_left >>

(***************************************************************************)
(* Electronic warfare phase.  Degradations are percentages.                *)
(***************************************************************************)
\* (radar degradation, comms degradation, result) of a jamming or GPS-denial
\* mission, from EWCombat.resolve_jamming: radar at most 80, comms at most 70
JamOutcomes == { << 0, 0, "defeat" >>, << 56, 0, "stalemate" >>, << 80, 70, "victory" >> }

\* (radar degradation, comms degradation, result) of resolve_cyber_attack
CyberOutcomes == { << 0, 0, "defeat" >>, << 20, 0, "marginal" >> }

\* the writes _execute_ew_phase makes for a truthy effect dict
ApplyEwEffect(faction, radar, comms, sigint) ==
    LET enemy == Enemy(faction)
        e1 == Put(current_ew_effects, << enemy, "radar_jam" >>,
                  Max(Get(current_ew_effects, << enemy, "radar_jam" >>, 0), radar))
        e2 == Put(e1, << enemy, "comms_jam" >>,
                  Max(Get(current_ew_effects, << enemy, "comms_jam" >>, 0), comms))
    IN  IF sigint THEN Put(e2, << faction, "sigint_intel" >>, 1) ELSE e2

\* add_manual_intel for each of the first three units of the enemy
SigintIntel(faction) ==
    LET db == get_faction_intel(faction)
    IN  [ u \in UnitIds |->
            IF u \in UnitsOfFaction(Enemy(faction))
            THEN add_manual_intel(db, u, "detected", game_state.turn)[u]
            ELSE db[u] ]

resolve_ew_mission ==
    \E faction \in Factions, mission_type \in {"jam_radar", "cyber", "sigint"} :
    \E unit_id \in ActingIds(faction) :
       /\ \/ /\ mission_type = "sigint"
             /\ \E unit_locations \in BOOLEAN, result \in {"decisive_victory", "defeat"} :
                   \* the unit locations are worth one point of the five that make
                   \* a decisive victory, a defeat has none
                   /\ (result = "defeat") = ~unit_locations
                   /\ MissionStep("ew", FactionRank(faction),
                                  Call("ew_sigint", faction, unit_id, "none", TRUE),
                                  << Report("sigint", unit_id, result, faction) >>)
                   /\ SetIntel(faction, IF unit_locations THEN SigintIntel(faction)
                                        ELSE get_faction_intel(faction))
                   /\ current_ew_effects' = ApplyEwEffect(faction, 0, 0, TRUE)
          \/ /\ mission_type # "sigint"
             /\ \E o \in IF mission_type = "cyber" THEN CyberOutcomes ELSE JamOutcomes :
                   /\ MissionStep("ew", FactionRank(faction),
                                  Call(IF mission_type = "cyber" THEN "ew_cyber" ELSE "ew_jam",
                                       faction, unit_id, "none", TRUE),
                                  << Report(IF mission_type = "cyber" THEN "cyber" ELSE "ew",
                                            unit_id, o[3], faction) >>)
                   /\ current_ew_effects' = ApplyEwEffect(faction, o[1], o[2], FALSE)
                   /\ UNCHANGED << india_intel, pakistan_intel >>
       /\ UNCHANGED << units, current_turn >>

execute_ew_phase_return ==
    /\ pc = "ew"
    /\ PhaseDone(3, reports)
    /\ UNCHANGED << units, game_state, current_ew_effects, destroyed_units_counted,
                    india_intel, pakistan_intel, vp_calls, bonus_credits,
                    order_lists, reports_left >>


(***************************************************************************)
(* Air phase.                                                              *)
(***************************************************************************)
\* a classifier with the marginal band filed under decisive defeat
determine_result_with_gap(attacker_score, defender_score) ==
    LET d == Max(1, defender_score)
    IN  IF 100 * attacker_score >= 300 * d THEN "decisive_victory"
        ELSE IF 100 * attacker_score >= 150 * d THEN "victory"
        ELSE IF 100 * attacker_score >= 110 * d THEN "decisive_defeat"
        ELSE IF 100 * attacker_score >= 90 * d THEN "stalemate"
        ELSE IF 100 * attacker_score >= 67 * d THEN "defeat"
        ELSE "decisive_defeat"

\* CombatResolver.determine_result (src/engine/combat/base.py), on integers
determine_result(attacker_score, defender_score) ==
    LET d == Max(1, defender_score)
    IN  IF 100 * attacker_score >= 300 * d THEN "decisive_victory"
        ELSE IF 100 * attacker_score >= 150 * d THEN "victory"
        ELSE IF 100 * attacker_score >= 110 * d THEN "marginal"
        ELSE IF 100 * attacker_score >= 90 * d THEN "stalemate"
        ELSE IF 100 * attacker_score >= 67 * d THEN "defeat"
        ELSE "decisive_defeat"

\* _get_sams_defending: the faction's combat-effective air-defence units that
\* engage (every air-defence unit of the table is a long-range system)
SamsDefending(faction) ==
    { u \in UnitIds : /\ UnitCategory(u) = "air_defense" /\ UnitFaction(u) = faction
                      /\ is_combat_effective(units[u]) }

\* the air phase walks five mission lists in this order; an uncontested CAP
\* mission of one side excludes one of the other side
AirStages == << "cap_pair", "cap_india", "cap_pakistan", "strike_india", "strike_pakistan" >>

AirStageAllowed(stage) == stage >= cursor /\ ~(cursor = 2 /\ stage = 3)

Losses(u, state, casualties, organization_loss) ==
    IF casualties > 0
    THEN take_losses(state, strength_max(u), casualties, organization_loss)
    ELSE state

PAKISTAN_MAX_CAP_AIRCRAFT == 12

resolve_air_to_air ==
    \E att_sqn_id \in ActingIds("india"), def_sqn_id \in ActingIds("pakistan") :
       LET att == get_unit(att_sqn_id)
           def == get_unit(def_sqn_id)
       IN  IF att = "none" \/ def = "none"
           THEN /\ MissionStep("air", 1,
                               Call("air_cap", "india", att_sqn_id, def_sqn_id, FALSE), << >>)
                /\ UNCHANGED << units, current_turn, current_ew_effects, india_intel,
                                pakistan_intel >>
           ELSE \E att_count \in {units[att].strength_current},
                   def_order \in {units[def].strength_current} :
                \E attacker_losses \in LossDraws(att_count),
                   defender_losses \in LossDraws(Min(def_order, PAKISTAN_MAX_CAP_AIRCRAFT)) :
                   LET u1 == [ units EXCEPT
                                 ![att] = Losses(att, units[att], attacker_losses, 5) ]
                       u2 == [ u1 EXCEPT
                                 ![def] = Losses(def, u1[def], defender_losses, 5) ]
                       result == determine_result(defender_losses * 10 + 1,
                                                  attacker_losses * 10 + 1)
                   IN  /\ MissionStep("air", 1,
                                      Call("air_cap", "india", att_sqn_id, def_sqn_id, TRUE),
                                      << Report("air_to_air", att_sqn_id, result, "india") >>)
                       /\ units' = u2
                       /\ UNCHANGED << current_turn, current_ew_effects, india_intel,
                                       pakistan_intel >>

create_cap_report ==
    \E faction \in Factions :
    \E squadron_id \in ActingIds(faction) :
       LET stage == IF faction = "india" THEN 2 ELSE 3
       IN  /\ pc = "air"
           /\ AirStageAllowed(stage)
           /\ MissionStep("air", stage,
                          Call("air_cap", faction, squadron_id, "none",
                               get_unit(squadron_id) # "none"),
                          IF get_unit(squadron_id) = "none" THEN << >>
                          ELSE << Report("air_cap", squadron_id, "CombatResult.VICTORY",
                                         faction) >>)
           /\ UNCHANGED << units, current_turn, current_ew_effects, india_intel,
                           pakistan_intel >>

resolve_air_strike ==
    \E faction \in Factions, mission_type \in {"strike", "sead"} :
    \E squadron_id \in ActingIds(faction), target_id \in TargetIds(faction) :
       LET stage == IF faction = "india" THEN 4 ELSE 5
           squadron == get_unit(squadron_id)
       IN  IF squadron = "none"
           THEN /\ MissionStep("air", stage,
                               Call("air_strike", faction, squadron_id, target_id, FALSE), << >>)
                /\ UNCHANGED << units, current_turn, current_ew_effects, india_intel,
                                pakistan_intel >>
           ELSE \E aircraft_count \in {units[squadron].strength_current} :
                LET sams == SamsDefending(Enemy(faction))
                    \* engagements = min(rounds // 2, aircraft) with rounds = supply_level
                    cap == IF sams = {} THEN 0
                           ELSE Min(aircraft_count,
                                    (CHOOSE m \in { units[x].supply_level \div 2 : x \in sams } :
                                        \A x \in sams : units[x].supply_level \div 2 <= m))
                IN  \E losses_to_sam \in LossDraws(cap), result \in StrikeResults :
                       \* no aircraft left to deliver ordnance: no hits, defeat
                       /\ (aircraft_count - losses_to_sam = 0) => result = "defeat"
                       /\ MissionStep("air", stage,
                                      Call("air_strike", faction, squadron_id, target_id, TRUE),
                                      << Report(IF mission_type = "sead" THEN "air_sead"
                                                ELSE "air_strike",
                                                squadron_id, result, faction) >>)
                       /\ units' = [ units EXCEPT ![squadron] =
                                       Losses(squadron, units[squadron], losses_to_sam, 5) ]
                       /\ UNCHANGED << current_turn, current_ew_effects, india_intel,
                                       pakistan_intel >>

execute_air_phase_return ==
    /\ pc = "air"
    /\ PhaseDone(4, reports)
    /\ UNCHANGED << units, game_state, current_ew_effects, destroyed_units_counted,
                    india_intel, pakistan_intel, vp_calls, bonus_credits,
                    order_lists, reports_left >>


(***************************************************************************)
(* Drone phase.                                                            *)
(***************************************************************************)
\* _get_ad_coverage_for_drones: the faction's combat-effective air-defence units
AdCoverage(faction) ==
    { u \in UnitIds : /\ UnitCategory(u) = "air_defense" /\ UnitFaction(u) = faction
                      /\ is_combat_effective(units[u]) }

\* missiles the coverage can spend on one mission: int(supply_level / 10) each
AdMissiles(faction) ==
    IF AdCoverage(faction) = {} THEN 0
    ELSE LET u == CHOOSE x \in AdCoverage(faction) : TRUE
         IN  units[u].supply_level \div 10

\* _get_target_sam: missiles of the SAM a swarm faces, int(supply_level / 5)
TargetSamMissiles(target_id, faction) ==
    IF get_unit(target_id) # "none" /\ UnitCategory(target_id) = "air_defense"
    THEN units[target_id].supply_level \div 5
    ELSE IF AdCoverage(faction) # {}
         THEN units[CHOOSE x \in AdCoverage(faction) : TRUE].supply_level \div 5
         ELSE 0

\* outcome of resolve_sead_swarm by the damage done to the SAM: each surviving
\* drone that hits adds 24 to 36 points
SwarmResults(surviving) ==
    {"stalemate"} \cup (IF surviving >= 1 THEN {"marginal"} ELSE {})
                  \cup (IF surviving >= 2 THEN {"victory"} ELSE {})
                  \cup (IF surviving >= 3 THEN {"decisive_victory"} ELSE {})

\* int(strength_current * damage / 100) for the damage range of the result
SwarmCasualties(strength, result) ==
    IF result = "marginal" THEN { (strength * 25) \div 100, (strength * 49) \div 100 }
    ELSE IF result = "victory" THEN { (strength * 50) \div 100, (strength * 79) \div 100 }
    ELSE {0}

DroneUnchanged == UNCHANGED << current_turn, current_ew_effects >>

resolve_drone_isr(faction, unit_id, target_id, drone_count) ==
    LET enemy == Enemy(faction)
        \* each long-range air-defence unit gets one shot
        cap == Min(drone_count, Cardinality(AdCoverage(enemy)))
    IN  \E losses \in LossDraws(cap), detected \in SUBSET UnitsOfFaction(enemy) :
           LET db == get_faction_intel(faction)
               result == IF detected # {} THEN "decisive_victory" ELSE "defeat"
           IN  /\ (drone_count - losses <= 0) => detected = {}
               /\ MissionStep("drones", FactionRank(faction),
                              Call("drone_isr", faction, unit_id, target_id, TRUE),
                              << Report("drone_isr", unit_id, result, faction) >>)
               /\ SetIntel(faction,
                           [ u \in UnitIds |->
                               IF u \in detected
                               THEN add_manual_intel(db, u, "identified", game_state.turn)[u]
                               ELSE db[u] ])
               /\ units' = [ units EXCEPT ![unit_id] =
                               Losses(unit_id, units[unit_id], losses, losses * 3) ]

resolve_drone_swarm(faction, unit_id, target_id, drone_count) ==
    LET enemy == Enemy(faction)
        cap == Min(TargetSamMissiles(target_id, enemy), drone_count)
    IN  \E losses \in LossDraws(cap) :
        \E result \in SwarmResults(drone_count - losses) :
           LET target == get_unit(target_id)
               u1 == IF target = "none" THEN units
                     ELSE IF result = "decisive_victory"
                     THEN [ units EXCEPT ![target] =
                              take_losses(units[target], strength_max(target),
                                          units[target].strength_current, 50) ]
                     ELSE units
           IN  \E casualties \in SwarmCasualties(
                                   IF target = "none" THEN 0
                                   ELSE units[target].strength_current, result) :
                  LET u2 == IF target # "none" /\ result \in {"marginal", "victory"}
                            THEN [ u1 EXCEPT ![target] =
                                     take_losses(u1[target], strength_max(target),
                                                 casualties, 20) ]
                            ELSE u1
                  IN  /\ MissionStep("drones", FactionRank(faction),
                                     Call("drone_sead", faction, unit_id, target_id, TRUE),
                                     << Report("drone_sead", unit_id, result, faction) >>)
                      /\ units' = [ u2 EXCEPT ![unit_id] =
                                      Losses(unit_id, u2[unit_id], drone_count,
                                             drone_count * 3) ]
                      /\ UNCHANGED << india_intel, pakistan_intel >>


\* result of DroneCombat.resolve_strike_mission from the targets destroyed and
\* damaged: effectiveness = (2 destroyed + damaged) / max(1, drone_count)
DroneStrikeResult(destroyed, damaged, drone_count) ==
    LET e == 2 * destroyed + damaged
        c == Max(1, drone_count)
    IN  IF 2 * e >= 3 * c THEN "decisive_victory"
        ELSE IF e >= c THEN "victory"
        ELSE IF 2 * e >= c THEN "marginal"
        ELSE IF destroyed + damaged > 0 THEN "stalemate"
        ELSE "defeat"

\* (destroyed, damaged) a strike may score with `weapons` shots
DroneHitDraws(weapons) ==
    { h \in { << 0, 0 >>, << 0, 1 >>, << 1, 0 >> } : h[1] + h[2] <= weapons }

resolve_drone_strike(faction, unit_id, target_id, drone_count) ==
    LET enemy == Enemy(faction)
        target_unit == get_unit(target_id)
        cap == Min(AdMissiles(enemy), drone_count)
    IN  \E losses \in LossDraws(cap), is_loitering \in BOOLEAN :
           LET surviving == drone_count - losses
               weapons == IF surviving <= 0 THEN 0
                          ELSE IF is_loitering THEN surviving ELSE 2 * surviving
           IN  \E h \in DroneHitDraws(weapons) :
                  LET drones_lost == IF surviving > 0 /\ is_loitering THEN drone_count
                                     ELSE losses
                      u1 == IF target_unit # "none" /\ (h[1] > 0 \/ h[2] > 0)
                            THEN [ units EXCEPT ![target_unit] =
                                     take_losses(units[target_unit], strength_max(target_unit),
                                                 2 * h[1] + h[2], 5 * h[1]) ]
                            ELSE units
                  IN  /\ MissionStep("drones", FactionRank(faction),
                                     Call("drone_strike", faction, unit_id, target_id, TRUE),
                                     << Report("drone", unit_id,
                                               DroneStrikeResult(h[1], h[2], drone_count),
                                               faction) >>)
                      /\ units' = [ u1 EXCEPT ![unit_id] =
                                      Losses(unit_id, u1[unit_id], drones_lost,
                                             drones_lost * 3) ]
                      /\ UNCHANGED << india_intel, pakistan_intel >>

DroneOp(mission_type) ==
    CASE mission_type = "isr" -> "drone_isr"
      [] mission_type = "sead" -> "drone_sead"
      [] OTHER -> "drone_strike"

resolve_drone_mission ==
    \E faction \in Factions, mission_type \in {"isr", "sead", "strike"} :
    \E unit_id \in ActingIds(faction), target_id \in TargetIds(faction) :
       IF get_unit(unit_id) = "none"
       THEN /\ MissionStep("drones", FactionRank(faction),
                           Call(DroneOp(mission_type), faction, unit_id, target_id, FALSE),
                           << >>)
            /\ UNCHANGED << units, current_turn, current_ew_effects, india_intel,
                            pakistan_intel >>
       ELSE /\ \E drone_count \in MissionSizes(units[unit_id].strength_current) :
                  CASE mission_type = "isr" ->
                         resolve_drone_isr(faction, unit_id, target_id, drone_count)
                    [] mission_type = "sead" ->
                         resolve_drone_swarm(faction, unit_id, target_id, drone_count)
                    [] OTHER ->
                         resolve_drone_strike(faction, unit_id, target_id, drone_count)
            /\ DroneUnchanged

execute_drone_phase_return ==
    /\ pc = "drones"
    /\ PhaseDone(5, reports)
    /\ UNCHANGED << units, game_state, current_ew_effects, destroyed_units_counted,
                    india_intel, pakistan_intel, vp_calls, bonus_credits,
                    order_lists, reports_left >>

(***************************************************************************)
(* Artillery phase.                                                        *)
(***************************************************************************)
\* casualties of a fire mission, int(strength * base_damage / 1000 * roll):
\* base_damage is below 50, 100, 150 for the results up to victory and has no
\* upper limit for a decisive victory; roll is at most 1.3
ArtilleryCasualties(strength, result) ==
    CASE result = "decisive_victory" -> IF strength = 0 THEN {0} ELSE {1, MaxLoss}
      [] result = "victory" -> { 0, (strength * 19) \div 100 }
      [] result = "marginal" -> { 0, (strength * 12) \div 100 }
      [] OTHER -> { 0, (strength * 6) \div 100 }

InCombat(ids) == [ current_turn EXCEPT !.units_in_combat = current_turn.units_in_combat \cup ids ]

resolve_artillery_mission ==
    \E faction \in Factions :
    \E battery_id \in NamedIds(faction), target_id \in TargetIds(faction) :
       LET battery == get_unit(battery_id)
           target == get_unit(target_id)
       IN  IF battery = "none"
           THEN /\ MissionStep("artillery", FactionRank(faction),
                               Call("artillery", faction, battery_id, target_id, FALSE), << >>)
                /\ UNCHANGED << units, current_turn, current_ew_effects, india_intel,
                                pakistan_intel >>
           ELSE \E result \in StrikeResults :
                \E casualties \in IF target = "none" THEN {0}
                                  ELSE ArtilleryCasualties(units[target].strength_current,
                                                           result) :
                   LET hit == target # "none" /\ casualties > 0
                       u1 == IF hit
                             THEN [ units EXCEPT ![target] =
                                      take_losses(units[target], strength_max(target),
                                                  casualties, 0) ]
                             ELSE units
                   IN  /\ MissionStep("artillery", FactionRank(faction),
                                      Call("artillery", faction, battery_id, target_id, TRUE),
                                      << Report("artillery", battery_id, result, faction) >>)
                       /\ units' = [ u1 EXCEPT ![battery] = consume_supply(u1[battery], TRUE) ]
                       /\ current_turn' = IF hit THEN InCombat({target_id}) ELSE current_turn
                       /\ UNCHANGED << current_ew_effects, india_intel, pakistan_intel >>

execute_artillery_phase_return ==
    /\ pc = "artillery"
    /\ PhaseDone(6, reports)
    /\ UNCHANGED << units, game_state, current_ew_effects, destroyed_units_counted,
                    india_intel, pakistan_intel, vp_calls, bonus_credits,
                    order_lists, reports_left >>


(***************************************************************************)
(* Helicopter phase.                                                       *)
(***************************************************************************)
DefaultTroops == 30

\* result of resolve_air_assault from the troops inserted
AirAssaultResult(helicopter_count, losses) ==
    LET troops_lost == IF losses = 0 THEN 0
                       ELSE losses * (DefaultTroops \div helicopter_count)
        inserted == DefaultTroops - troops_lost
    IN  IF 10 * inserted >= 8 * DefaultTroops THEN "decisive_victory"
        ELSE IF 10 * inserted >= 6 * DefaultTroops THEN "victory"
        ELSE IF 10 * inserted >= 4 * DefaultTroops THEN "marginal"
        ELSE IF inserted > 0 THEN "stalemate"
        ELSE "defeat"

\* result of resolve_attack_mission against a target without vehicles:
\* effectiveness = hits / max(1, helicopter_count)
HeliAttackResult(hits, helicopter_count) ==
    LET c == Max(1, helicopter_count)
    IN  IF 2 * hits >= 3 * c THEN "decisive_victory"
        ELSE IF hits >= c THEN "victory"
        ELSE IF 2 * hits >= c THEN "marginal"
        ELSE IF hits > 0 THEN "stalemate"
        ELSE "defeat"

\* int(strength * hits * 0.02 * vulnerability * roll), vulnerability 1.0 for
\* the "infantry" class every unit type of the table falls in, roll up to 1.3
HeliCasualties(strength, hits) == { 0, (strength * hits * 26) \div 1000 }

resolve_helicopter_mission ==
    \E faction \in Factions, mission_type \in {"attack", "air_assault"} :
    \E unit_id \in ActingIds(faction), target_id \in TargetIds(faction) :
       LET unit == get_unit(unit_id)
           target_unit == get_unit(target_id)
       IN  IF unit = "none" \/ (mission_type = "attack" /\ target_unit = "none")
           THEN /\ MissionStep("helicopters", FactionRank(faction),
                               Call(IF mission_type = "attack" THEN "helicopter_attack"
                                    ELSE "helicopter_air_assault",
                                    faction, unit_id, target_id, FALSE), << >>)
                /\ UNCHANGED << units, current_turn, current_ew_effects, india_intel,
                                pakistan_intel >>
           ELSE \E helicopter_count \in {units[unit].strength_current} :
                \E helicopters_lost \in
                      LossDraws(Min(Max(AdMissiles(Enemy(faction)),
                                        IF mission_type = "air_assault" THEN helicopter_count
                                        ELSE 0),
                                    helicopter_count)) :
                   IF mission_type = "air_assault"
                   THEN /\ MissionStep("helicopters", FactionRank(faction),
                                       Call("helicopter_air_assault", faction, unit_id,
                                            target_id, TRUE),
                                       << Report("helicopter_air_assault", unit_id,
                                                 AirAssaultResult(helicopter_count,
                                                                  helicopters_lost),
                                                 faction) >>)
                        /\ units' = [ units EXCEPT ![unit] =
                                        Losses(unit, units[unit], helicopters_lost,
                                               helicopters_lost * 5) ]
                        /\ UNCHANGED << current_turn, current_ew_effects, india_intel,
                                        pakistan_intel >>
                   ELSE \E hits \in {0, helicopter_count - helicopters_lost} :
                        \E target_casualties \in
                              HeliCasualties(units[target_unit].strength_current, hits) :
                           LET u1 == IF target_casualties > 0
                                     THEN [ units EXCEPT ![target_unit] =
                                              take_losses(units[target_unit],
                                                          strength_max(target_unit),
                                                          target_casualties, 0) ]
                                     ELSE units
                           IN  /\ MissionStep("helicopters", FactionRank(faction),
                                              Call("helicopter_attack", faction, unit_id,
                                                   target_id, TRUE),
                                              << Report("helicopter", unit_id,
                                                        HeliAttackResult(hits, helicopter_count),
                                                        faction) >>)
                               /\ units' = [ u1 EXCEPT ![unit] =
                                               Losses(unit, u1[unit], helicopters_lost,
                                                      helicopters_lost * 5) ]
                               /\ current_turn' = IF target_casualties > 0
                                                  THEN InCombat({target_id})
                                                  ELSE current_turn
                               /\ UNCHANGED << current_ew_effects, india_intel,
                                               pakistan_intel >>

execute_helicopter_phase_return ==
    /\ pc = "helicopters"
    /\ PhaseDone(7, reports)
    /\ UNCHANGED << units, game_state, current_ew_effects, destroyed_units_counted,
                    india_intel, pakistan_intel, vp_calls, bonus_credits,
                    order_lists, reports_left >>


(***************************************************************************)
(* Ground phase (src/engine/combat/ground.py).                             *)
(***************************************************************************)
\* results resolve_engagement can return: an attacker that is not combat
\* effective has combat power 0, the ratio is 0
GroundResults(attacker) ==
    IF is_combat_effective(units[attacker]) THEN CombatResults ELSE {"decisive_defeat"}

\* upper end of 0.05 * intensity * combat_ratio * roll in percent, by result:
\* intensity at most 2, roll at most 1.3, the ratio below its band's limit
DefenderRatePct(result) ==
    CASE result = "victory" -> 38
      [] result = "marginal" -> 19
      [] result = "stalemate" -> 14
      [] result = "defeat" -> 11
      [] OTHER -> 8

\* a decisive victory has a ratio of 3 or more, without an upper limit
DefenderCasualties(strength, result) ==
    IF result = "decisive_victory"
    THEN (IF strength = 0 THEN {0} ELSE {1, MaxLoss})
    ELSE { 0, (strength * DefenderRatePct(result)) \div 100 }

\* 0.05 * intensity * roll / max(0.5, ratio) is at most 0.26
AttackerCasualties(strength) == { 0, (strength * 26) \div 100 }

\* samples of roll(5 + 10 / max(0.5, ratio), 0.3) and roll(5 + 10 * ratio, 0.3)
AttackerOrgLoss(result) ==
    CASE result = "decisive_victory" -> 8
      [] result = "victory" -> 10
      [] result = "marginal" -> 12
      [] result = "stalemate" -> 15
      [] result = "defeat" -> 18
      [] OTHER -> 22

DefenderOrgLoss(result) ==
    CASE result = "decisive_victory" -> {30}
      [] result = "victory" -> {20}
      [] result = "marginal" -> {15}
      [] result = "stalemate" -> {12}
      [] result = "defeat" -> {10}
      [] OTHER -> {5}

defender_retreated(result) == result \in {"decisive_victory", "victory"}

\* GroundCombat.apply_combat_results
\* (ac, aol: the attacker's casualties and organization loss; dc, dol: the
\* defender's)
apply_combat_results(us, attacker, defender, ac, aol, dc, dol, retreated) ==
    LET u1 == [ us EXCEPT ![attacker] =
                  take_losses(us[attacker], strength_max(attacker), ac, aol) ]
        u2 == [ u1 EXCEPT ![defender] =
                  take_losses(u1[defender], strength_max(defender), dc, dol) ]
    IN  IF retreated THEN [ u2 EXCEPT ![defender].status = "retreating" ] ELSE u2

resolve_ground_combat ==
    \E faction \in Factions :
    \E unit_id \in NamedIds(faction), target_id \in TargetIds(faction) :
       LET attacker == get_unit(unit_id)
           defender == get_unit(target_id)
       IN  IF attacker = "none" \/ defender = "none"
           THEN /\ MissionStep("ground", FactionRank(faction),
                               Call("ground", faction, unit_id, target_id, FALSE), << >>)
                /\ UNCHANGED << units, current_turn, current_ew_effects, india_intel,
                                pakistan_intel >>
           ELSE \E result \in GroundResults(attacker) :
                \E ac \in AttackerCasualties(units[attacker].strength_current),
                   dc \in DefenderCasualties(units[defender].strength_current, result),
                   dol \in DefenderOrgLoss(result) :
                   /\ MissionStep("ground", FactionRank(faction),
                                  Call("ground", faction, unit_id, target_id, TRUE),
                                  << Report("ground", unit_id, result, faction) >>)
                   /\ units' = apply_combat_results(units, attacker, defender, ac,
                                                    AttackerOrgLoss(result), dc, dol,
                                                    defender_retreated(result))
                   /\ current_turn' = InCombat({attacker, defender})
                   /\ UNCHANGED << current_ew_effects, india_intel, pakistan_intel >>

execute_ground_phase_return ==
    /\ pc = "ground"
    /\ PhaseDone(8, reports)
    /\ UNCHANGED << units, game_state, current_ew_effects, destroyed_units_counted,
                    india_intel, pakistan_intel, vp_calls, bonus_credits,
                    order_lists, reports_left >>


(***************************************************************************)
(* Special-forces phase (src/engine/combat/special_forces.py).             *)
(***************************************************************************)
\* _calculate_casualties: int(team * 0.05 * 2 * 1.5 * security * roll) with
\* security at most 1.35 and roll at most 1.5, capped at the team size
SfCasualties(team_size) == { 0, Min(team_size, (team_size * 30) \div 100) }

\* result of resolve_recon from the share of the enemy's units identified
ReconResult(identified, total, compromised) ==
    LET t == Max(1, total)
    IN  IF 10 * identified >= 8 * t /\ ~compromised THEN "decisive_victory"
        ELSE IF 10 * identified >= 5 * t THEN "victory"
        ELSE IF 10 * identified >= 3 * t THEN "marginal"
        ELSE "defeat"

\* result of resolve_mission from the objective achieved ("full": 0.8 and
\* more, "partial": 0.4 to 0.6, "none") and the team's casualties
SfResults(achievement, casualties, team_size) ==
    CASE achievement = "full" ->
           IF casualties = 0 THEN {"decisive_victory"}
           ELSE IF 10 * casualties <= 2 * team_size THEN {"victory"}
           ELSE {"marginal"}
      [] achievement = "partial" -> {"marginal", "stalemate"}
      [] OTHER -> {"defeat"}

\* (enemy casualties, organization loss = damage * 0.3) of _execute_mission
SfDamage(mission_type, achievement, target_troops) ==
    CASE achievement = "full" /\ mission_type = "sabotage" ->
           { << 1, 24 >>, << MaxLoss, 24 >> }
      [] achievement = "full" /\ mission_type = "raid" ->
           { << 0, 21 >>, << (target_troops * 35) \div 100, 21 >> }
      [] achievement = "partial" ->
           { << 0, 12 >>, << (target_troops * 12) \div 100, 12 >> }
      [] OTHER -> { << 0, 0 >> }

resolve_sf_recon(faction, unit_id, target_id, team_size) ==
    LET enemy == Enemy(faction)
        db == get_faction_intel(faction)
    IN  \E positions \in SUBSET UnitsOfFaction(enemy), compromised \in BOOLEAN :
        \E casualties \in IF compromised THEN SfCasualties(team_size) ELSE {0} :
           /\ MissionStep("special_forces", FactionRank(faction),
                          Call("sf_recon", faction, unit_id, target_id, TRUE),
                          << Report("special_forces", unit_id,
                                    ReconResult(Cardinality(positions),
                                                Cardinality(UnitsOfFaction(enemy)),
                                                compromised),
                                    faction) >>)
           /\ SetIntel(faction,
                       [ u \in UnitIds |->
                           IF u \in positions
                           THEN add_manual_intel(db, u, "confirmed", game_state.turn)[u]
                           ELSE db[u] ])
           /\ units' = [ units EXCEPT ![unit_id] =
                           Losses(unit_id, units[unit_id], casualties, casualties * 5) ]
           /\ UNCHANGED current_turn

resolve_sf_raid(faction, unit_id, target_id, team_size, mission_type) ==
    LET target_unit == get_unit(target_id)
        \* the order's target_troops, default 50, when the target is unknown
        target_troops == IF target_unit # "none" THEN units[target_unit].strength_current
                         ELSE 50
    IN  \E achievement \in {"full", "partial", "none"} :
        \E casualties \in SfCasualties(team_size),
           d \in SfDamage(mission_type, achievement, target_troops) :
        \E result \in SfResults(achievement, casualties, team_size) :
           LET hit == target_unit # "none" /\ d[1] > 0
               u1 == IF hit
                     THEN [ units EXCEPT ![target_unit] =
                              take_losses(units[target_unit], strength_max(target_unit),
                                          d[1], d[2]) ]
                     ELSE units
           IN  /\ MissionStep("special_forces", FactionRank(faction),
                              Call("sf_raid", faction, unit_id, target_id, TRUE),
                              << Report("special_forces", unit_id, result, faction) >>)
               /\ units' = [ u1 EXCEPT ![unit_id] =
                               Losses(unit_id, u1[unit_id], casualties, casualties * 5) ]
               /\ current_turn' = IF hit THEN InCombat({target_id}) ELSE current_turn
               /\ UNCHANGED << india_intel, pakistan_intel >>

resolve_sf_mission ==
    \E faction \in Factions, mission_type \in {"recon", "raid", "sabotage"} :
    \E unit_id \in ActingIds(faction), target_id \in TargetIds(faction) :
       /\ IF get_unit(unit_id) = "none"
          THEN /\ MissionStep("special_forces", FactionRank(faction),
                              Call(IF mission_type = "recon" THEN "sf_recon" ELSE "sf_raid",
                                   faction, unit_id, target_id, FALSE), << >>)
               /\ UNCHANGED << units, current_turn, india_intel, pakistan_intel >>
          ELSE \E team_size \in {units[unit_id].strength_current} :
                  IF mission_type = "recon"
                  THEN resolve_sf_recon(faction, unit_id, target_id, team_size)
                  ELSE resolve_sf_raid(faction, unit_id, target_id, team_size, mission_type)
       /\ UNCHANGED current_ew_effects

execute_sf_phase_return ==
    /\ pc = "special_forces"
    /\ PhaseDone(9, reports)
    /\ UNCHANGED << units, game_state, current_ew_effects, destroyed_units_counted,
                    india_intel, pakistan_intel, vp_calls, bonus_credits,
                    order_lists, reports_left >>

(***************************************************************************)
(* Logistics and recovery phases.                                          *)
(***************************************************************************)
\* LogisticsSystem.process_supply_turn for a unit without a map location: the
\* supply available at the default distance covers the consumption, the unit
\* is supplied and its supply level is restored by 10
process_supply_turn(us) ==
    [ u \in UnitIds |-> [ us[u] EXCEPT !.supply_level = Min(100, us[u].supply_level + 10) ] ]

execute_logistics_phase ==
    /\ pc = "logistics"
    /\ units' = process_supply_turn(units)
    /\ PhaseDone(10, << >>)
    /\ UNCHANGED << game_state, current_ew_effects, destroyed_units_counted, india_intel,
                    pakistan_intel, vp_calls, bonus_credits,
                    order_lists, reports_left >>

execute_recovery_phase ==
    /\ pc = "recovery"
    /\ units' = [ u \in UnitIds |-> recover(units[u], game_state.turn) ]
    /\ PhaseDone(11, << >>)
    /\ UNCHANGED << game_state, current_ew_effects, destroyed_units_counted, india_intel,
                    pakistan_intel, vp_calls, bonus_credits,
                    order_lists, reports_left >>


(***************************************************************************)
(* End of turn: victory points and victory conditions.                     *)
(***************************************************************************)
\* VP_COMBAT.get(result_val, 0)
VP_COMBAT(result_val) ==
    CASE result_val = "decisive_victory" -> 5
      [] result_val = "victory" -> 3
      [] result_val = "marginal" -> 1
      [] OTHER -> 0

\* VP_UNIT_DESTROY.get(unit.category, 2)
VP_UNIT_DESTROY(category) ==
    CASE category = "aircraft" -> 5
      [] category = "air_defense" -> 4
      [] category \in {"missile", "helicopter", "special_forces"} -> 3
      [] OTHER -> 2

IsSeadPhase(phase) == phase \in {"air_sead", "drone_sead"}

\* what one report adds to the faction's points: the award goes to the faction
\* of the attacking unit; a report carries no "faction" entry to fall back on
ReportVp(report, faction) ==
    LET vp_award == VP_COMBAT(report.result)
        attacker_unit == get_unit(report.attacker_id)
        owned == attacker_unit # "none" /\ UnitFaction(attacker_unit) = faction
    IN  IF vp_award = 0 \/ ~owned THEN 0
        ELSE vp_award
             + (IF IsSeadPhase(report.phase) /\ vp_award >= 3 THEN 2 ELSE 0)
             + (IF report.phase = "special_forces" /\ vp_award >= 3 THEN 1 ELSE 0)

RECURSIVE CombatVp(_, _)
CombatVp(rs, faction) ==
    IF rs = << >> THEN 0 ELSE ReportVp(Head(rs), faction) + CombatVp(Tail(rs), faction)

\* the destroyed units without the test against the seen-set
NewlyDestroyed_recounted == { u \in UnitIds : units[u].status = "destroyed" }

NewlyDestroyed ==
    { u \in UnitIds : units[u].status = "destroyed" /\ u \notin destroyed_units_counted }

RECURSIVE DestroyVp(_, _)
DestroyVp(us, faction) ==
    IF us = {} THEN 0
    ELSE LET u == CHOOSE x \in us : TRUE
         IN  (IF UnitFaction(u) = Enemy(faction) THEN VP_UNIT_DESTROY(UnitCategory(u)) ELSE 0)
             + DestroyVp(us \ {u}, faction)

\* _calculate_victory_points: the game state after the call
calculate_victory_points(gs) ==
    [ gs EXCEPT
        !.india_vp = gs.india_vp + CombatVp(current_turn.combat_reports, "india")
                     + DestroyVp(NewlyDestroyed, "india"),
        !.pakistan_vp = gs.pakistan_vp + CombatVp(current_turn.combat_reports, "pakistan")
                        + DestroyVp(NewlyDestroyed, "pakistan") ]

\* _check_victory_conditions with > in place of >=: the game ends a turn late
check_victory_conditions_late(gs) ==
    IF gs.turn > gs.max_turns
    THEN [ gs EXCEPT !.game_over = TRUE,
                     !.winner = IF gs.india_vp > gs.pakistan_vp THEN "india"
                                ELSE IF gs.pakistan_vp > gs.india_vp THEN "pakistan"
                                ELSE "draw" ]
    ELSE gs

\* _check_victory_conditions: the game state after the call
check_victory_conditions(gs) ==
    IF gs.turn >= gs.max_turns
    THEN [ gs EXCEPT !.game_over = TRUE,
                     !.winner = IF gs.india_vp > gs.pakistan_vp THEN "india"
                                ELSE IF gs.pakistan_vp > gs.india_vp THEN "pakistan"
                                ELSE "draw" ]
    ELSE gs

CountDestroyed ==
    /\ destroyed_units_counted' = destroyed_units_counted \cup NewlyDestroyed
    /\ bonus_credits' = [ u \in UnitIds |->
                            bonus_credits[u] + (IF u \in NewlyDestroyed THEN 1 ELSE 0) ]

\* a direct call of _calculate_victory_points before the turn is ended
calculate_victory_points_call ==
    /\ UNCHANGED << resolver_vars, hex_map >>
    /\ pc = "end"
    /\ vp_calls + 1 < MaxVpCalls
    /\ game_state' = calculate_victory_points(game_state)
    /\ CountDestroyed
    /\ vp_calls' = vp_calls + 1
    /\ last_call' = NoCall
    /\ UNCHANGED << units, current_turn, current_ew_effects, india_intel, pakistan_intel,
                    pc, cursor, reports, phase_trace, order_lists, reports_left >>

end_turn ==
    /\ UNCHANGED << resolver_vars, hex_map >>
    /\ pc = "end"
    /\ LET gs == check_victory_conditions(calculate_victory_points(game_state))
       IN  game_state' = [ gs EXCEPT !.turn_history = Append(gs.turn_history, gs.turn) ]
    /\ CountDestroyed
    /\ vp_calls' = vp_calls + 1
    /\ pc' = "idle"
    /\ last_call' = NoCall
    /\ UNCHANGED << units, current_turn, current_ew_effects, india_intel, pakistan_intel,
                    cursor, reports, phase_trace, order_lists, reports_left >>

\* a phase that raises and wipes the turn's work on its way out
phase_raises_with_rollback ==
    /\ pc \in PhaseNames
    /\ pc' = "raised"
    /\ last_call' = NoCall
    /\ units' = [ u \in UnitIds |-> InitUnit(u) ]
    /\ current_ew_effects' = EmptyMap
    /\ game_state' = [ game_state EXCEPT !.turn = game_state.turn - 1 ]
    /\ UNCHANGED << current_turn, destroyed_units_counted, india_intel, pakistan_intel,
                    cursor, reports, phase_trace, vp_calls, bonus_credits, order_lists,
                    reports_left, resolver_vars, hex_map >>

\* A handler or a phase callback raises.  execute_phase and execute_full_turn
\* have no try block and no caller in src catches the exception: the call ends
\* here, before the phase is marked complete, with whatever the steps before
\* wrote; the phase's local list of reports is dropped with the frame.
phase_raises ==
    /\ pc \in PhaseNames
    /\ pc' = "raised"
    /\ last_call' = NoCall
    /\ UNCHANGED << units, game_state, current_turn, current_ew_effects,
                    destroyed_units_counted, india_intel, pakistan_intel, cursor,
                    reports, phase_trace, vp_calls, bonus_credits, order_lists,
                    reports_left, resolver_vars, hex_map >>

\* initialize_game called on a TurnManager whose previous game is over, then
\* the same scenario's duration written to max_turns again (src/game.py:111).
\* The game state and the turn record are replaced and the units are loaded
\* anew from the order of battle; nothing else of the orchestrator is written.
initialize_game ==
    /\ pc = "idle"
    /\ game_state.game_over
    /\ game_state' = [ turn |-> 0, max_turns |-> game_state.max_turns, india_vp |-> 0,
                       pakistan_vp |-> 0, game_over |-> FALSE, winner |-> "none",
                       turn_history |-> << >> ]
    /\ current_turn' = NoTurn
    /\ units' = [ u \in UnitIds |-> InitUnit(u) ]
    /\ phase_trace' = << >>
    /\ vp_calls' = 0
    /\ last_call' = NoCall
    /\ UNCHANGED << current_ew_effects, destroyed_units_counted, india_intel,
                    pakistan_intel, pc, cursor, reports, bonus_credits, order_lists,
                    reports_left, resolver_vars, hex_map >>

Next ==
    \/ start_turn
    \/ initialize_game
    \/ phase_raises
    \/ execute_intelligence_phase
    \/ resolve_missile_strike
    \/ execute_missile_phase_return
    \/ resolve_ew_mission
    \/ execute_ew_phase_return
    \/ resolve_air_to_air
    \/ create_cap_report
    \/ resolve_air_strike
    \/ execute_air_phase_return
    \/ resolve_drone_mission
    \/ execute_drone_phase_return
    \/ resolve_artillery_mission
    \/ execute_artillery_phase_return
    \/ resolve_helicopter_mission
    \/ execute_helicopter_phase_return
    \/ resolve_ground_combat
    \/ execute_ground_phase_return
    \/ resolve_sf_mission
    \/ execute_sf_phase_return
    \/ execute_logistics_phase
    \/ execute_recovery_phase
    \/ calculate_victory_points_call
    \/ end_turn

Spec == Init /\ [][Next]_vars

(***************************************************************************)
(* Properties of the turn sequence and of units.                           *)
(***************************************************************************)
\* the order of phases the specification gives
SpecifiedOrder ==
    << "intelligence", "missiles", "ew", "air", "drones", "artillery", "helicopters",
       "ground", "special_forces", "logistics", "recovery" >>

\* C1: a full turn executes each of the eleven phases exactly once, in the
\* fixed order intelligence, missiles, electronic warfare, air, drones,
\* artillery, helicopters, ground, special forces, logistics, recovery: the
\* phases executed so far are always a prefix of that order, and once the last
\* phase has run and when the turn has returned they are the whole order and
\* the turn record has every one of the eleven phases marked complete.
C1_PhasesOnceInOrder ==
    /\ Len(phase_trace) <= Len(SpecifiedOrder)
    /\ \A i \in 1..Len(phase_trace) : phase_trace[i] = SpecifiedOrder[i]
    /\ \A i \in 1..Len(phase_trace) : current_turn.phase_complete[phase_trace[i]]
    /\ (game_state.turn > 0 /\ pc \in {"end", "idle"}) =>
          /\ phase_trace = SpecifiedOrder
          /\ DOMAIN current_turn.phase_complete = { SpecifiedOrder[i] : i \in 1..11 }
          /\ \A p \in DOMAIN current_turn.phase_complete : current_turn.phase_complete[p]

\* the second full turn has returned
C1_Witness ==
    /\ pc = "idle"
    /\ game_state.turn = 2
    /\ phase_trace = SpecifiedOrder
    /\ \A p \in PhaseNames : current_turn.phase_complete[p]

\* C2: in every reachable state and for every unit, the status is destroyed
\* if and only if strength_current is 0.
C2_DestroyedIffZeroStrength ==
    \A u \in UnitIds : (units[u].status = "destroyed") <=> (units[u].strength_current = 0)

\* C3: destroyed is terminal: no step changes the status of a destroyed unit
\* to another value.
C3_DestroyedIsTerminal ==
    [][ \A u \in UnitIds :
          units[u].status = "destroyed" => units'[u].status = "destroyed" ]_vars

\* the ladder none < suspected < detected < identified < confirmed; a unit
\* without a record stands below it
LadderRank(q) ==
    CASE q = "none" -> 1
      [] q = "suspected" -> 2
      [] q = "detected" -> 3
      [] q = "identified" -> 4
      [] q = "confirmed" -> 5
      [] OTHER -> 0

\* the steps that write to the intelligence stores through add_manual_intel
IntelWriteStep == pc' = pc /\ pc \in {"ew", "drones", "special_forces"}

\* C4: a write to a faction's intelligence store never lowers the recorded
\* quality of a unit on the ladder: the quality stored after a mission's write
\* is at least the quality stored before it.
C4_WritesNeverLowerQuality ==
    [][ IntelWriteStep =>
          \A u \in UnitIds :
             /\ LadderRank(india_intel'[u].quality) >= LadderRank(india_intel[u].quality)
             /\ LadderRank(pakistan_intel'[u].quality)
                   >= LadderRank(pakistan_intel[u].quality) ]_vars

(***************************************************************************)
(* Properties of the lookups a resolver makes.  A mission step is a step   *)
(* that leaves a resolver call in last_call.                               *)
(***************************************************************************)
\* the mission was skipped: no report, no EW effect, no unit changed
Skipped ==
    /\ ~last_call'.returned
    /\ reports' = reports
    /\ current_ew_effects' = current_ew_effects
    /\ units' = units

\* the mission was resolved: its report is the last of the phase's reports
Reported ==
    /\ last_call'.returned
    /\ Len(reports') = Len(reports) + 1

UnknownActingUnit == last_call'.op # "none" /\ ~last_call'.unit_known

\* the missions of the air, drone, artillery, helicopter, ground and
\* special-forces domains
LookupGuardedKinds ==
    MissionKinds \ {"missile_strike", "ew_jam", "ew_cyber", "ew_sigint"}

UnknownTarget(kinds) ==
    /\ last_call'.op \in kinds
    /\ last_call'.unit_known
    /\ ~last_call'.target_known

ActingFactionUnchanged ==
    \A u \in UnitsOfFaction(last_call'.faction) : units'[u] = units[u]

C7_DestructionBonusOnce ==
    \A u \in UnitIds :
       /\ bonus_credits[u] <= 1
       /\ (bonus_credits[u] = 1) <=> (u \in destroyed_units_counted)

\* a unit's bonus was credited and the points have been calculated again, in
\* the same turn and in a later one, with the unit still destroyed
C7_Witness ==
    \E u \in UnitIds :
       /\ bonus_credits[u] = 1
       /\ units[u].status = "destroyed"
       /\ game_state.turn >= 2
       /\ vp_calls >= 2

\* the points the specification gives an outcome
OutcomeTier(result) ==
    CASE result = "decisive_victory" -> 5
      [] result \in {"victory", "CombatResult.VICTORY"} -> 3
      [] result = "marginal" -> 1
      [] OTHER -> 0

\* what a report adds to a faction's points as the specification has it
StatedReportVp(report, faction) ==
    LET award == OutcomeTier(report.result)
        owned == report.attacker_id \in UnitIds /\ UnitFaction(report.attacker_id) = faction
    IN  IF award = 0 \/ ~owned THEN 0
        ELSE award
             + (IF IsSeadPhase(report.phase) /\ award >= 3 THEN 2 ELSE 0)
             + (IF report.phase = "special_forces" /\ award >= 3 THEN 1 ELSE 0)

RECURSIVE StatedCombatVp(_, _)
StatedCombatVp(rs, faction) ==
    IF rs = << >> THEN 0
    ELSE StatedReportVp(Head(rs), faction) + StatedCombatVp(Tail(rs), faction)

\* C8: at end of turn every combat report of the turn's list, uncontested CAP
\* reports included, earns the faction owning its attacking unit 5 points for
\* a decisive victory, 3 for a victory, 1 for a marginal outcome and 0
\* otherwise (next to the SEAD, special-forces and destruction bonuses).
C8_EveryReportAwardedByTier ==
    [][ vp_calls' = vp_calls + 1 =>
          /\ game_state'.india_vp =
                game_state.india_vp + StatedCombatVp(current_turn.combat_reports, "india")
                + DestroyVp(NewlyDestroyed, "india")
          /\ game_state'.pakistan_vp =
                game_state.pakistan_vp
                + StatedCombatVp(current_turn.combat_reports, "pakistan")
                + DestroyVp(NewlyDestroyed, "pakistan") ]_vars

Leader ==
    IF game_state.india_vp > game_state.pakistan_vp THEN "india"
    ELSE IF game_state.pakistan_vp > game_state.india_vp THEN "pakistan"
    ELSE "draw"

\* C9: game_over is false as long as the turn counter is below max_turns and
\* while the turn that reaches max_turns is running; it is true once that turn
\* has ended, and the winner is then india or pakistan, whoever has more
\* victory points, or draw when the points are equal.
C9_GameOverAtMaxTurns ==
    /\ game_state.turn < game_state.max_turns => ~game_state.game_over
    /\ (game_state.turn = game_state.max_turns /\ pc # "idle") => ~game_state.game_over
    /\ (game_state.turn = game_state.max_turns /\ pc = "idle") =>
          /\ game_state.game_over
          /\ game_state.winner = Leader

\* the game has ended at max_turns with a winner on points
C9_Witness ==
    /\ pc = "idle"
    /\ game_state.turn = game_state.max_turns
    /\ game_state.game_over
    /\ game_state.india_vp > game_state.pakistan_vp
    /\ game_state.winner = "india"

\* C10: for every unit, always, 0 <= strength_current <= strength_max: the
\* losses a domain applies, mission sizes above the unit's strength included,
\* stop at zero and nothing raises strength.
C10_StrengthWithinBounds ==
    \A u \in UnitIds :
       /\ 0 <= units[u].strength_current
       /\ units[u].strength_current <= strength_max(u)

\* a drone swarm larger than its unit's strength has been expended
C10_Witness ==
    /\ last_call.op = "drone_sead"
    /\ last_call.returned
    /\ \E u \in UnitsOfFaction(last_call.faction) :
          units[u].strength_current = 0 /\ units[u].status = "destroyed"

(***************************************************************************)
(* Properties of the electronic-warfare effects.                           *)
(***************************************************************************)
\* C11: EW effects are single-turn: the step that starts a turn leaves the
\* map of effects empty, and it is still empty in the phases before the turn's
\* own EW phase, so no value written in a turn is readable in a later turn.
C11_EwEffectsSingleTurn ==
    [][ /\ game_state'.turn > game_state.turn => current_ew_effects' = EmptyMap
        /\ pc' \in {"intelligence", "missiles", "ew"} /\ pc \notin {"ew"}
              => current_ew_effects' = EmptyMap ]_vars

\* a radar degradation was written in the first turn (its jamming mission was
\* a victory) and the second turn has started with an empty map
C11_Witness ==
    /\ order_lists = {"ew_jam"}
    /\ game_state.turn = 2
    /\ game_state.india_vp + game_state.pakistan_vp >= 3
    /\ pc = "missiles"
    /\ current_ew_effects = EmptyMap

\* C12: the radar degradation a turn's EW phase writes against a faction is
\* read by that turn's missile resolution: every missile strike of the turn
\* against that faction was resolved with the EW modifier 1 minus the
\* degradation the turn's EW phase has written (100 minus it, in percent).
C12_MissilesReadTurnsRadarJam ==
    current_turn.phase_complete["ew"] =>
       \A i \in 1..Len(current_turn.combat_reports) :
          LET r == current_turn.combat_reports[i]
          IN  r.phase = "missiles" =>
                r.ew_modifier
                   = 100 - Get(current_ew_effects, << r.defender_faction, "radar_jam" >>, 0)

(***************************************************************************)
(* Properties of the order of resolution.                                  *)
(***************************************************************************)
\* the faction whose mission a report comes from: the owner of its attacking
\* unit ("none" when the report names no unit of the table)
ReportFaction(r) ==
    IF r.attacker_id \in UnitIds THEN UnitFaction(r.attacker_id) ELSE "none"

\* C13: within every combat phase all of India's missions are resolved before
\* any of Pakistan's: the phase's report list never holds a report of a
\* Pakistan mission before a report of an India mission, in the air phase as
\* in the others.
C13_IndiaReportsBeforePakistans ==
    \A i, j \in 1..Len(reports) :
       i < j => ~(ReportFaction(reports[i]) = "pakistan"
                  /\ ReportFaction(reports[j]) = "india")

(***************************************************************************)
(* Properties of the missile phase.                                        *)
(***************************************************************************)
MissileStrikeResolved == last_call'.op = "missile_strike" /\ last_call'.returned

\* what a resolved strike does to the battery that fired, apart from the
\* size n of its salvo
SalvoAccounted(b, n) ==
    /\ n <= units[b].missiles_remaining
    /\ units'[b].missiles_remaining = units[b].missiles_remaining - n
    /\ units'[b].missiles_remaining >= 0
    /\ units'[b].turns_until_reload = reload_time_turns
    /\ units'[b].turns_until_reload > 0 /\ ~can_fire(units'[b])

\* C14 as stated: every resolved missile strike fires n missiles with n >= 2
\* and n <= the battery's inventory before the strike; afterwards the inventory
\* is the previous value minus n and the reload counter is reload_time_turns,
\* so that the battery cannot fire while the counter is above zero.
C14_SalvoOfAtLeastTwo ==
    [][ MissileStrikeResolved =>
          LET r == reports'[Len(reports')]
          IN  /\ r.missiles_fired >= 2
              /\ SalvoAccounted(r.attacker_id, r.missiles_fired) ]_vars

\* C14 amended: a resolved strike fires n = min(max(2, requested), inventory)
\* missiles: at least 2 when the battery holds at least 2, and its single
\* missile when it holds 1; n never exceeds the inventory, the inventory drops
\* by n, the reload counter is set to reload_time_turns and the battery cannot
\* fire while the counter is above zero.
C14_SalvoOfTwoCappedAtInventory ==
    [][ MissileStrikeResolved =>
          LET r == reports'[Len(reports')]
              b == r.attacker_id
          IN  /\ r.missiles_fired >= 1
              /\ units[b].missiles_remaining >= 2 => r.missiles_fired >= 2
              /\ units[b].missiles_remaining = 1 => r.missiles_fired = 1
              /\ SalvoAccounted(b, r.missiles_fired) ]_vars

\* a battery holding one missile has fired it
C14_Witness ==
    /\ last_call.op = "missile_strike"
    /\ last_call.returned
    /\ reports # << >>
    /\ reports[Len(reports)].missiles_fired = 1
    /\ units[reports[Len(reports)].attacker_id].missiles_remaining = 0


(***************************************************************************)
(* Resolvers and helpers called on their own.  The arguments of one call   *)
(* are drawn when the behaviour starts; the call is one step.              *)
(***************************************************************************)
engine_vars == << units, game_state, current_turn, current_ew_effects,
                  destroyed_units_counted, india_intel, pakistan_intel, pc, cursor,
                  reports, phase_trace, last_call, vp_calls, bonus_credits,
                  order_lists, reports_left, hex_map >>

SeqsUpTo(S, n) == UNION { [ 1..k -> S ] : k \in 0..n }

\* str.lower on the spellings of type names the inputs use
lower(t) ==
    CASE t = "S400" -> "s400"
      [] t = "Akash" -> "akash"
      [] OTHER -> t

\* CombatResolver.hit_check: the values rng.random() < hit_chance can take,
\* rng.random() lying in [0, 1); hit_chance is given in units of 1/one
hit_check(hit_chance, one) ==
    IF hit_chance <= 0 THEN { FALSE }
    ELSE IF hit_chance >= one THEN { TRUE }
    ELSE BOOLEAN

(***************************************************************************)
(* MissileCombat._resolve_interception (src/engine/combat/missiles.py).    *)
(***************************************************************************)
MaxIncoming == 4    \* missiles of a salvo
MaxSams == 2        \* entries of a defending SAM list

\* speed, and detectability in percent
MISSILE_STATS ==
    [ brahmos |-> [ speed |-> "supersonic", detectability |-> 60 ],
      babur |-> [ speed |-> "subsonic", detectability |-> 35 ] ]

\* intercept chances in percent
SAM_EFFECTIVENESS ==
    [ s400 |-> [ subsonic |-> 95, supersonic |-> 35 ],
      hq9 |-> [ subsonic |-> 80, supersonic |-> 0 ] ]

\* entries of defending_sams: a system of the table, one without chance
\* against supersonic missiles, one the table does not know
SamEntries ==
    [ type : { "s400", "hq9", "patriot" }, rounds : { 0, 1, 2, 5 }, ready : BOOLEAN ]

InterceptionArgs ==
    [ fn : { "resolve_interception" }, missiles_incoming : 0..MaxIncoming,
      missile_type : DOMAIN MISSILE_STATS, defending_sams : SeqsUpTo(SamEntries, MaxSams),
      ew_modifier : { 20, 100 } ]

RECURSIVE intercept_attempts(_, _, _)
\* `for _ in range(missiles_remaining)`: the numbers of hits the iterations
\* left can score, two rounds spent per attempt
intercept_attempts(iterations, rounds_to_use, effective_intercept) ==
    IF iterations = 0 \/ rounds_to_use < 2 THEN { 0 }
    ELSE { IF hit THEN h + 1 ELSE h :
             hit \in hit_check(effective_intercept, 10000000),
             h \in intercept_attempts(iterations - 1, rounds_to_use - 2,
                                      effective_intercept) }

RECURSIVE attempts_made(_, _)
\* the same loop counted: the iterations that get past `if rounds_to_use < 2`
attempts_made(iterations, rounds_to_use) ==
    IF iterations = 0 \/ rounds_to_use < 2 THEN 0
    ELSE 1 + attempts_made(iterations - 1, rounds_to_use - 2)

\* a SAM's engagement that scores hits without taking them off the missiles left
sam_engagement_keeping_count(st, sam, missile_stats, ew_modifier) ==
    IF ~sam.ready \/ sam.rounds <= 0 THEN { st }
    ELSE LET effectiveness == Get(SAM_EFFECTIVENESS, lower(sam.type), EmptyMap)
             base_intercept == Get(effectiveness, missile_stats.speed, 50)
             detect_chance == Min(1000, missile_stats.detectability * 15)
             effective_intercept == base_intercept * ew_modifier * detect_chance
             rounds_to_use == Min(sam.rounds, st.missiles_remaining * 2)
         IN  { [ st EXCEPT !.total_intercepted = @ + h,
                           !.total_rounds_used = @ + rounds_to_use,
                           !.attempts = @ + attempts_made(st.missiles_remaining,
                                                          rounds_to_use) ] :
                 h \in intercept_attempts(st.missiles_remaining, rounds_to_use,
                                          effective_intercept) }

\* one pass of `for sam in defending_sams`, after its break test: the states
\* of the three counters the pass can end in
sam_engagement(st, sam, missile_stats, ew_modifier) ==
    IF ~sam.ready \/ sam.rounds <= 0 THEN { st }
    ELSE LET effectiveness == Get(SAM_EFFECTIVENESS, lower(sam.type), EmptyMap)
             base_intercept == Get(effectiveness, missile_stats.speed, 50)
             detect_chance == Min(1000, missile_stats.detectability * 15)
             effective_intercept == base_intercept * ew_modifier * detect_chance
             rounds_to_use == Min(sam.rounds, st.missiles_remaining * 2)
         IN  { [ st EXCEPT !.missiles_remaining = @ - h,
                           !.total_intercepted = @ + h,
                           !.total_rounds_used = @ + rounds_to_use,
                           !.attempts = @ + attempts_made(st.missiles_remaining,
                                                          rounds_to_use) ] :
                 h \in intercept_attempts(st.missiles_remaining, rounds_to_use,
                                          effective_intercept) }

RECURSIVE sam_loop(_, _, _, _)
sam_loop(st, sams, missile_stats, ew_modifier) ==
    IF sams = << >> \/ st.missiles_remaining <= 0 THEN { st }
    ELSE UNION { sam_loop(st2, Tail(sams), missile_stats, ew_modifier) :
                   st2 \in sam_engagement(st, Head(sams), missile_stats, ew_modifier) }

\* the InterceptionResults the call can return, each with the number of
\* intercept attempts that were made to reach it
resolve_interception(missiles_incoming, missile_stats, defending_sams, ew_modifier) ==
    { [ missiles_incoming |-> missiles_incoming,
        missiles_intercepted |-> st.total_intercepted,
        missiles_leaked |-> st.missiles_remaining,
        interceptor_rounds_used |-> st.total_rounds_used,
        attempts |-> st.attempts ] :
        st \in sam_loop([ missiles_remaining |-> missiles_incoming,
                          total_intercepted |-> 0, total_rounds_used |-> 0,
                          attempts |-> 0 ],
                        defending_sams, missile_stats, ew_modifier) }

resolve_interception_call ==
    /\ fn_args.fn = "resolve_interception"
    /\ fn_result = NoResult
    /\ \E r \in resolve_interception(fn_args.missiles_incoming,
                                     MISSILE_STATS[fn_args.missile_type],
                                     fn_args.defending_sams, fn_args.ew_modifier) :
          fn_result' = [ fn |-> "resolve_interception", value |-> r ]
    /\ UNCHANGED << engine_vars, stat_tables, fn_args >>

(***************************************************************************)
(* TurnManager._get_sams_defending (src/engine/turn.py).                   *)
(***************************************************************************)
MaxAdUnits == 3     \* air-defense units in the unit table

LONG_RANGE == { "s400", "hq9" }

MEDIUM_RANGE == { "barak8", "mrsam", "akash", "hq16" }

SHORT_RANGE == { "spyder", "spada2000", "fm90" }

\* Python's `a in b` on two strings, for the ids used: b contains a
StrContains(b, a) == a = b \/ << a, b >> \in { << "ab1", "ab10" >> }

\* air-defense units: types of the three tiers, one spelt in capitals and one
\* of no tier; a protecting list naming the target, an id that contains the
\* target's id, or nothing
AdUnits ==
    [ unit_type : { "s400", "S400", "akash", "spyder", "oerlikon" },
      faction : Factions, combat_effective : BOOLEAN,
      protecting : { << >>, << "ab1" >>, << "ab10" >> },
      supply_level : { 10 }, ready : { TRUE } ]

SamsDefendingArgs ==
    [ fn : { "get_sams_defending" }, target_id : { "ab1" }, faction : { "india" },
      ad_units : SeqsUpTo(AdUnits, MaxAdUnits) ]

\* line 421: the target is an element of the list, or part of an element
is_protecting(unit, target_id) ==
    \/ \E k \in 1..Len(unit.protecting) : unit.protecting[k] = target_id
    \/ \E k \in 1..Len(unit.protecting) : StrContains(unit.protecting[k], target_id)

\* the list a unit of the loop is appended to
SamTier(unit, target_id, faction) ==
    IF unit.faction # faction \/ ~unit.combat_effective THEN "skipped"
    ELSE IF is_protecting(unit, target_id) THEN "protecting"
    ELSE IF lower(unit.unit_type) \in LONG_RANGE THEN "long"
    ELSE IF lower(unit.unit_type) \in MEDIUM_RANGE THEN "medium"
    ELSE IF lower(unit.unit_type) \in SHORT_RANGE THEN "short"
    ELSE "none"

\* sam_entry, with the place of its unit in the table to tell entries apart
sam_entry(ad_units, i) ==
    [ type |-> ad_units[i].unit_type, rounds |-> ad_units[i].supply_level,
      ready |-> ad_units[i].ready, unit |-> i ]

TierSams(ad_units, target_id, faction, tier) ==
    SelectSeq([ i \in 1..Len(ad_units) |-> sam_entry(ad_units, i) ],
              LAMBDA e : SamTier(ad_units[e.unit], target_id, faction) = tier)

\* s[:1]
FirstOf(s) == SubSeq(s, 1, Min(1, Len(s)))

RECURSIVE dedupe(_, _, _)
\* lines 443-448: the entries whose type was not seen before, in order
dedupe(result, seen_types, deduped) ==
    IF result = << >> THEN deduped
    ELSE IF Head(result).type \notin seen_types
         THEN dedupe(Tail(result), seen_types \cup { Head(result).type },
                     Append(deduped, Head(result)))
         ELSE dedupe(Tail(result), seen_types, deduped)

get_sams_defending(target_id, faction, ad_units) ==
    LET protecting_sams == TierSams(ad_units, target_id, faction, "protecting")
        long_range_sams == TierSams(ad_units, target_id, faction, "long")
        medium_range_sams == TierSams(ad_units, target_id, faction, "medium")
        short_range_sams == TierSams(ad_units, target_id, faction, "short")
        result == protecting_sams \o FirstOf(long_range_sams) \o FirstOf(medium_range_sams)
        deduped == dedupe(result, {}, << >>)
    IN  IF deduped # << >> THEN deduped ELSE FirstOf(short_range_sams)

get_sams_defending_call ==
    /\ fn_args.fn = "get_sams_defending"
    /\ fn_result = NoResult
    /\ fn_result' = [ fn |-> "get_sams_defending",
                      value |-> get_sams_defending(fn_args.target_id, fn_args.faction,
                                                   fn_args.ad_units) ]
    /\ UNCHANGED << engine_vars, stat_tables, fn_args >>

(***************************************************************************)
(* The resolvers that read a class-level stat table: resolve_strike_mission *)
(* (src/engine/combat/drones.py), resolve_attack_mission (helicopters.py)  *)
(* and resolve_mission (special_forces.py).  A probability is a pair       *)
(* (p, one) standing for p / one.                                          *)
(***************************************************************************)
MaxMissions == 2    \* missions resolved one after the other
MaxDrones == 2      \* drones of a strike mission

\* the dict literals passed to dict.get as defaults: a new dict on every call
DefaultDroneStats == [ type |-> "ucav", damage |-> 60, accuracy |-> 70, stealth |-> 40 ]

DefaultHeliStats == [ attack |-> 70, defense |-> 50, armor_pen |-> 70 ]

DefaultSfStats == [ skill |-> 80, stealth |-> 75, firepower |-> 65, endurance |-> 80 ]

\* DroneCombat.VULNERABILITY of the classes _classify_target gives a radar, an
\* armoured unit and a target that is not in the unit table, times ten
VULNERABILITY == [ radar |-> 20, armor |-> 6, logistics |-> 14 ]

\* entries of _get_ad_coverage_for_drones: effectiveness in percent
AdCoverageLists == { << >>, << [ effectiveness |-> 50, missiles |-> 4 ] >> }

\* air_ops_modifier in clear weather and in rain, radar jamming absent and at
\* its cap, both in percent
DroneStrikeArgs(seq) ==
    [ fn : { "resolve_strike_mission" }, seq : { seq },
      drone_type : { "harop", "mq9", "tb2" }, drone_count : 1..MaxDrones,
      overrides : { EmptyMap, [ damage |-> 100 ], [ accuracy |-> 40 ] },
      target_type : DOMAIN VULNERABILITY, air_defense_coverage : AdCoverageLists,
      ew_degradation : { 0, 80 }, weather_modifier : { 50, 100 } ]

HeliAttackArgs(seq) ==
    [ fn : { "resolve_attack_mission" }, seq : { seq }, helicopter_type : { "apache", "mi35" },
      overrides : { EmptyMap, [ attack |-> 50 ] } ]

\* sf_stats always carries the unit's type (turn.py:1196-1198)
SfMissionArgs(seq) ==
    [ fn : { "resolve_mission" }, seq : { seq },
      overrides : { [ type |-> "para_sf" ], [ type |-> "para_sf", skill |-> 50 ],
                    [ type |-> "commando" ] } ]

StatMissionArgs(seq) == DroneStrikeArgs(seq) \cup HeliAttackArgs(seq) \cup SfMissionArgs(seq)

\* TABLE.get(key, default) followed by stats.update(overrides): the dict the
\* call computes with.  A row of the table is updated in place.
LoadedStats(table, key, default, overrides) == update(Get(table, key, default), overrides)

\* the table after the call: the row of a known type is the updated dict
UpdatedTable(table, key, default, overrides) ==
    [ t \in DOMAIN table |->
        IF t = key THEN LoadedStats(table, key, default, overrides) ELSE table[t] ]

RECURSIVE hits_in(_, _)
\* the numbers of hits n hit checks of one chance can score
hits_in(n, chance) ==
    IF n = 0 THEN { 0 }
    ELSE { IF hit THEN h + 1 ELSE h :
             hit \in hit_check(chance.p, chance.one), h \in hits_in(n - 1, chance) }

RECURSIVE strike_rolls(_, _, _)
\* n weapons released: each rolls to hit, a hit rolls to kill
strike_rolls(n, hit_chance, kill_chance) ==
    IF n = 0 THEN { [ targets_destroyed |-> 0, targets_damaged |-> 0, kill_rolled |-> FALSE ] }
    ELSE UNION {
           { IF ~hit THEN r
             ELSE IF kill THEN [ r EXCEPT !.targets_destroyed = @ + 1, !.kill_rolled = TRUE ]
             ELSE [ r EXCEPT !.targets_damaged = @ + 1, !.kill_rolled = TRUE ] :
               hit \in hit_check(hit_chance.p, hit_chance.one),
               kill \in hit_check(kill_chance.p, kill_chance.one) } :
           r \in strike_rolls(n - 1, hit_chance, kill_chance) }

\* what resolve_strike_mission can return: the stats it computed with, the
\* engagement, the result, and the chances it handed to hit_check
resolve_strike_mission(table, m) ==
    LET stats == LoadedStats(table, lower(m.drone_type), DefaultDroneStats, m.overrides)
        is_loitering == Get(stats, "type", "none") = "loitering"
        ad_list == m.air_defense_coverage
        ad_chance ==
            [ p |-> ad_list[1].effectiveness * (200 - Get(stats, "stealth", 40))
                    * (IF is_loitering THEN 6 ELSE 10) * (100 - m.ew_degradation),
              one |-> 20000000 ]
        engagements == IF ad_list = << >> THEN 0 ELSE Min(ad_list[1].missiles, m.drone_count)
        loss_draws == IF engagements = 0 THEN { 0 }
                      ELSE { Min(l, m.drone_count) : l \in hits_in(engagements, ad_chance) }
        ad_checks == IF engagements = 0 THEN {} ELSE { ad_chance }
        hit_chance ==
            [ p |-> Get(stats, "accuracy", 70) * (200 - m.ew_degradation) * m.weather_modifier,
              one |-> 2000000 ]
        kill_chance ==
            [ p |-> Get(stats, "damage", 60) * VULNERABILITY[m.target_type]
                    * (IF is_loitering THEN 10 ELSE 5),
              one |-> 10000 ]
        weapons(surviving) ==
            IF is_loitering THEN surviving ELSE surviving * Get(stats, "weapons", 2)
    IN  UNION {
          IF m.drone_count - losses <= 0
          THEN { [ stats |-> stats, drones_lost |-> losses, targets_destroyed |-> 0,
                   targets_damaged |-> 0, result |-> "defeat", hit_checks |-> ad_checks ] }
          ELSE { [ stats |-> stats,
                   drones_lost |-> IF is_loitering THEN m.drone_count ELSE losses,
                   targets_destroyed |-> r.targets_destroyed,
                   targets_damaged |-> r.targets_damaged,
                   result |-> DroneStrikeResult(r.targets_destroyed, r.targets_damaged,
                                                m.drone_count),
                   hit_checks |-> ad_checks \cup { hit_chance }
                                  \cup (IF r.kill_rolled THEN { kill_chance } ELSE {}) ] :
                   r \in strike_rolls(weapons(m.drone_count - losses), hit_chance,
                                      kill_chance) } :
          losses \in loss_draws }

resolve_strike_mission_call ==
    /\ fn_args.fn = "resolve_strike_mission"
    /\ fn_result = NoResult
    /\ \E r \in resolve_strike_mission(stat_tables.DRONE_STATS, fn_args) :
          fn_result' = [ fn |-> "resolve_strike_mission", value |-> r ]
    /\ stat_tables' =
          [ stat_tables EXCEPT
              !.DRONE_STATS = UpdatedTable(stat_tables.DRONE_STATS, lower(fn_args.drone_type),
                                           DefaultDroneStats, fn_args.overrides) ]
    /\ UNCHANGED << engine_vars, fn_args >>

\* resolve_attack_mission, lines 77-82: the stats the engagement is computed
\* with, on which the rest of the result depends
resolve_attack_mission_call ==
    /\ fn_args.fn = "resolve_attack_mission"
    /\ fn_result = NoResult
    /\ fn_result' =
          [ fn |-> "resolve_attack_mission",
            value |-> [ stats |-> LoadedStats(stat_tables.HELICOPTER_STATS,
                                              lower(fn_args.helicopter_type),
                                              DefaultHeliStats, fn_args.overrides) ] ]
    /\ stat_tables' =
          [ stat_tables EXCEPT
              !.HELICOPTER_STATS =
                 UpdatedTable(stat_tables.HELICOPTER_STATS, lower(fn_args.helicopter_type),
                              DefaultHeliStats, fn_args.overrides) ]
    /\ UNCHANGED << engine_vars, fn_args >>

\* resolve_mission, lines 85-94: the skill, stealth and firepower the three
\* phases of the mission are computed with
resolve_mission_call ==
    /\ fn_args.fn = "resolve_mission"
    /\ fn_result = NoResult
    /\ LET sf_type == lower(Get(fn_args.overrides, "type", ""))
           base_stats == LoadedStats(stat_tables.SPECIAL_FORCES_STATS, sf_type,
                                     DefaultSfStats, fn_args.overrides)
       IN  /\ fn_result' =
                 [ fn |-> "resolve_mission",
                   value |-> [ stats |-> [ skill |-> Get(base_stats, "skill", 80),
                                           stealth |-> Get(base_stats, "stealth", 75),
                                           firepower |-> Get(base_stats, "firepower", 65) ] ] ]
           /\ stat_tables' =
                 [ stat_tables EXCEPT
                     !.SPECIAL_FORCES_STATS =
                        UpdatedTable(stat_tables.SPECIAL_FORCES_STATS, sf_type,
                                     DefaultSfStats, fn_args.overrides) ]
    /\ UNCHANGED << engine_vars, fn_args >>

\* the phase loop goes on to its next mission
next_mission ==
    /\ fn_result.fn \in { "resolve_strike_mission", "resolve_attack_mission", "resolve_mission" }
    /\ fn_args.seq < MaxMissions
    /\ fn_args' \in StatMissionArgs(fn_args.seq + 1)
    /\ fn_result' = NoResult
    /\ UNCHANGED << engine_vars, stat_tables >>

(***************************************************************************)
(* CombatResolver.determine_result (src/engine/combat/base.py) called on   *)
(* two attacker scores against one defender score.                         *)
(***************************************************************************)
MaxScore == 30      \* largest attacker score

DetermineResultArgs ==
    { a \in [ fn : { "determine_result" }, attacker_low : 0..MaxScore,
              attacker_high : 0..MaxScore, defender_score : { -1, 0, 1, 2, 5, 10 } ] :
        a.attacker_low <= a.attacker_high }

determine_result_call ==
    /\ fn_args.fn = "determine_result"
    /\ fn_result = NoResult
    /\ fn_result' =
          [ fn |-> "determine_result",
            value |-> [ low |-> determine_result(fn_args.attacker_low,
                                                 fn_args.defender_score),
                        high |-> determine_result(fn_args.attacker_high,
                                                  fn_args.defender_score) ] ]
    /\ UNCHANGED << engine_vars, stat_tables, fn_args >>

(***************************************************************************)
(* The turn records of two turns of a game of sixteen turns                *)
(* (start_turn, src/engine/turn.py).                                       *)
(***************************************************************************)
MaxTurnNumber == 16     \* 16 turns = 4 days

StartTurnArgs ==
    [ fn : { "start_turn" }, turn : 1..MaxTurnNumber, other_turn : 1..MaxTurnNumber ]

start_turn_call ==
    /\ fn_args.fn = "start_turn"
    /\ fn_result = NoResult
    /\ fn_result' = [ fn |-> "start_turn",
                      value |-> [ record |-> TurnState(fn_args.turn),
                                  other |-> TurnState(fn_args.other_turn) ] ]
    /\ UNCHANGED << engine_vars, stat_tables, fn_args >>

(***************************************************************************)
(* The map after the start_turn calls of the first turns of a game played  *)
(* under one weather (start_turn, src/engine/turn.py; set_weather and      *)
(* set_time_of_day, src/engine/map.py).                                    *)
(***************************************************************************)
RECURSIVE start_turns(_, _, _)
\* the map after start_turn has taken game_state.turn from `turn` to `last`
start_turns(hm, turn, last) ==
    IF turn >= last THEN hm
    ELSE start_turns(set_time_of_day(hm, get_time_of_day(turn) = "night"), turn + 1, last)

StartTurnsArgs == [ fn : { "start_turns" }, weather : Weathers, turns : 1..MaxTurnNumber ]

start_turns_call ==
    /\ fn_args.fn = "start_turns"
    /\ fn_result = NoResult
    /\ fn_result' = [ fn |-> "start_turns",
                      value |-> start_turns(set_weather(HexMapInit, fn_args.weather),
                                            0, fn_args.turns) ]
    /\ UNCHANGED << engine_vars, stat_tables, fn_args >>

(***************************************************************************)
(* The second specification.                                               *)
(***************************************************************************)
ResolverArgs == InterceptionArgs \cup SamsDefendingArgs \cup StatMissionArgs(1)
    \cup DetermineResultArgs \cup StartTurnArgs \cup StartTurnsArgs

ResolverInit ==
    /\ units = [ u \in UnitIds |-> InitUnit(u) ]
    /\ game_state = [ turn |-> 0, max_turns |-> TurnCap, india_vp |-> 0,
                      pakistan_vp |-> 0, game_over |-> FALSE, winner |-> "none",
                      turn_history |-> << >> ]
    /\ order_lists = {}
    /\ reports_left = 0
    /\ current_turn = NoTurn
    /\ current_ew_effects = EmptyMap
    /\ destroyed_units_counted = {}
    /\ india_intel = [ u \in UnitIds |-> NoIntel ]
    /\ pakistan_intel = [ u \in UnitIds |-> NoIntel ]
    /\ pc = "idle"
    /\ cursor = 0
    /\ reports = << >>
    /\ phase_trace = << >>
    /\ last_call = NoCall
    /\ vp_calls = 0
    /\ bonus_credits = [ u \in UnitIds |-> 0 ]
    /\ stat_tables = BuiltInTables
    /\ fn_args \in ResolverArgs
    /\ fn_result = NoResult
    /\ hex_map = HexMapInit

ResolverNext ==
    \/ resolve_interception_call
    \/ get_sams_defending_call
    \/ resolve_strike_mission_call
    \/ resolve_attack_mission_call
    \/ resolve_mission_call
    \/ next_mission
    \/ determine_result_call
    \/ start_turn_call
    \/ start_turns_call

ResolverSpec == ResolverInit /\ [][ResolverNext]_vars

(***************************************************************************)
(* C15: missile accounting of the interception.                            *)
(***************************************************************************)
Intercepted == fn_result.fn = "resolve_interception"

\* C15: for every number of missiles fired and every list of defending SAMs
\* (any types, round counts and ready flags, the empty list included) the
\* interception result has fired = intercepted + leaked with both terms
\* non-negative, and with no defending SAM every missile fired leaks.
C15_FiredIsInterceptedPlusLeaked ==
    Intercepted =>
        LET r == fn_result.value
        IN  /\ r.missiles_incoming = fn_args.missiles_incoming
            /\ r.missiles_incoming = r.missiles_intercepted + r.missiles_leaked
            /\ r.missiles_intercepted >= 0
            /\ r.missiles_leaked >= 0
            /\ (fn_args.defending_sams = << >> => r.missiles_leaked = r.missiles_incoming)

\* two SAMs engaged a salvo of four: some missiles intercepted, some leaked
C15_Witness ==
    /\ Intercepted
    /\ fn_args.missiles_incoming = 4
    /\ Len(fn_args.defending_sams) = 2
    /\ fn_result.value.missiles_intercepted >= 1
    /\ fn_result.value.missiles_leaked >= 1

(***************************************************************************)
(* C16, C17: the layered SAM selection.                                    *)
(***************************************************************************)
SamsSelected == fn_result.fn = "get_sams_defending"

SelectedTier(i) == SamTier(fn_args.ad_units[i], fn_args.target_id, fn_args.faction)

\* combat-effective SAMs of the defending faction whose protecting list
\* names the target
ExplicitlyProtecting ==
    { i \in 1..Len(fn_args.ad_units) :
        /\ SelectedTier(i) # "skipped"
        /\ \E k \in 1..Len(fn_args.ad_units[i].protecting) :
              fn_args.ad_units[i].protecting[k] = fn_args.target_id }

\* ... whose protecting list names the target or an id that contains its id
TreatedAsProtecting == { i \in 1..Len(fn_args.ad_units) : SelectedTier(i) = "protecting" }

\* entries of the returned list from units outside P whose type is in `range`
EntriesOutside(P, range) ==
    { k \in 1..Len(fn_result.value) :
        /\ fn_result.value[k].unit \notin P
        /\ lower(fn_result.value[k].type) \in range }

LayeredWithin(P) ==
    /\ Len(fn_result.value) <= Cardinality(P) + 2
    /\ Cardinality(EntriesOutside(P, LONG_RANGE)) <= 1
    /\ Cardinality(EntriesOutside(P, MEDIUM_RANGE)) <= 1
    /\ \A k, l \in 1..Len(fn_result.value) :
          fn_result.value[k].type = fn_result.value[l].type => k = l

\* C16 as stated: the returned list has at most (combat-effective SAMs
\* explicitly protecting the target) + 2 entries, at most one non-protecting
\* long-range and one non-protecting medium-range system, and no two
\* entries of the same system type.
C16_LayeredWithinExplicitPlusTwo == SamsSelected => LayeredWithin(ExplicitlyProtecting)

\* What does hold of C16: the same bounds counted over the SAMs the selection
\* treats as protecting, those whose protecting list names the target or an
\* id that contains the target's id.
C16_LayeredWithinMatchedPlusTwo == SamsSelected => LayeredWithin(TreatedAsProtecting)

\* a SAM assigned to "ab10" covers "ab1" next to the umbrella and the sector layer
C16_Witness ==
    /\ SamsSelected
    /\ Len(fn_result.value) = 3
    /\ ExplicitlyProtecting = {}
    /\ Cardinality(TreatedAsProtecting) = 1

\* a short-range entry from outside P is the whole list, returned when
\* nothing of P, no long-range and no medium-range SAM applies
PointDefenseOnlyAsFallback(P) ==
    \A k \in 1..Len(fn_result.value) :
        ( /\ fn_result.value[k].unit \notin P
          /\ lower(fn_result.value[k].type) \in SHORT_RANGE )
        => /\ Len(fn_result.value) = 1
           /\ P = {}
           /\ \A i \in 1..Len(fn_args.ad_units) : SelectedTier(i) \notin { "long", "medium" }

\* C17 as stated: the list contains every combat-effective SAM of the
\* defending faction explicitly assigned to protect the target, and a
\* non-protecting short-range system appears only as the single fallback
\* entry when no protecting, long-range or medium-range SAM applies.
C17_EveryProtectingSamListed ==
    SamsSelected =>
        /\ \A i \in ExplicitlyProtecting :
              \E k \in 1..Len(fn_result.value) : fn_result.value[k].unit = i
        /\ PointDefenseOnlyAsFallback(ExplicitlyProtecting)

\* What does hold of C17: the list holds, for every combat-effective SAM whose
\* protecting list names the target or an id containing the target's id, an
\* entry of that SAM's system type, which is the first such SAM of the type; a
\* short-range system outside them appears only as the single fallback entry.
C17_FirstProtectingSamOfEachTypeListed ==
    SamsSelected =>
        /\ \A i \in TreatedAsProtecting :
              \E k \in 1..Len(fn_result.value) :
                  /\ fn_result.value[k].type = fn_args.ad_units[i].unit_type
                  /\ fn_result.value[k].unit \in TreatedAsProtecting
                  /\ fn_result.value[k].unit <= i
                  /\ \A j \in TreatedAsProtecting :
                        fn_args.ad_units[j].unit_type = fn_args.ad_units[i].unit_type
                        => fn_result.value[k].unit <= j
        /\ PointDefenseOnlyAsFallback(TreatedAsProtecting)

\* two batteries of one type protect the target: one entry stands for both
C17_Witness ==
    /\ SamsSelected
    /\ Cardinality(ExplicitlyProtecting) = 2
    /\ Len(fn_result.value) = 1
    /\ fn_result.value[1].unit = 1

(***************************************************************************)
(* C18: a phase that raises.                                               *)
(***************************************************************************)
\* C18: when phase k of a turn raises, every change the steps before it made
\* (unit losses and inventories, EW effects, intel writes) and the increment
\* of the turn counter stay as they are, no victory points are computed for
\* the turn and its record is not appended to the history: the step that
\* raises writes nothing back.
C18_PartialApplyOnFailure ==
    [][ pc' = "raised" =>
          /\ units' = units
          /\ current_ew_effects' = current_ew_effects
          /\ india_intel' = india_intel
          /\ pakistan_intel' = pakistan_intel
          /\ destroyed_units_counted' = destroyed_units_counted
          /\ game_state' = game_state
          /\ game_state'.turn = current_turn'.turn_number
          /\ vp_calls' = 0
          /\ Len(game_state'.turn_history) = game_state'.turn - 1
          /\ ~current_turn'.phase_complete[pc] ]_vars

\* the air phase of turn 1 raised after a salvo was fired in the missile phase
\* and a jammer had written its effect in the EW phase
C18_Witness ==
    /\ pc = "raised"
    /\ current_turn.current_phase = "air"
    /\ game_state.turn = 1
    /\ game_state.turn_history = << >>
    /\ game_state.india_vp = 0
    /\ game_state.pakistan_vp = 0
    /\ current_ew_effects # EmptyMap
    /\ \E u \in UnitIds : IsMissileBattery(u) /\ units[u].missiles_remaining < 4

(***************************************************************************)
(* C19: the resolvers and their stat tables.                               *)
(***************************************************************************)
StatMissionResolved ==
    fn_result.fn \in { "resolve_strike_mission", "resolve_attack_mission", "resolve_mission" }

\* the stats the mission is resolved with when the tables are as loaded
StatsFromBuiltInTables ==
    CASE fn_args.fn = "resolve_strike_mission" ->
            LoadedStats(DRONE_STATS, lower(fn_args.drone_type), DefaultDroneStats,
                        fn_args.overrides)
      [] fn_args.fn = "resolve_attack_mission" ->
            LoadedStats(HELICOPTER_STATS, lower(fn_args.helicopter_type), DefaultHeliStats,
                        fn_args.overrides)
      [] fn_args.fn = "resolve_mission" ->
            LET base_stats == LoadedStats(SPECIAL_FORCES_STATS, lower(fn_args.overrides.type),
                                          DefaultSfStats, fn_args.overrides)
            IN  [ skill |-> base_stats.skill, stealth |-> base_stats.stealth,
                  firepower |-> base_stats.firepower ]

\* C19: a mission is resolved with the stats of the built-in table and its own
\* overrides, whichever missions were resolved before it: the overrides of an
\* earlier drone, helicopter or special-forces mission do not show in the
\* stats of a later one.
C19_ResolversStateless ==
    StatMissionResolved => fn_result.value.stats = StatsFromBuiltInTables

(***************************************************************************)
(* C20: the chances handed to hit_check.                                   *)
(***************************************************************************)
\* C20: every chance a resolver hands to hit_check lies in [0, 1] for the stats
\* of the built-in tables and modifiers in their ranges; here the chances of a
\* drone strike resolved first, without overrides.
C20_HitChancesWithinUnitInterval ==
    ( /\ fn_result.fn = "resolve_strike_mission"
      /\ fn_args.seq = 1
      /\ fn_args.overrides = EmptyMap )
    => \A c \in fn_result.value.hit_checks : 0 <= c.p /\ c.p <= c.one

(***************************************************************************)
(* C21: the outcome classifier.                                            *)
(***************************************************************************)
ResultRank(result) ==
    CASE result = "decisive_defeat" -> 0
      [] result = "defeat" -> 1
      [] result = "stalemate" -> 2
      [] result = "marginal" -> 3
      [] result = "victory" -> 4
      [] result = "decisive_victory" -> 5

\* tier boundaries in hundredths of the ratio a / max(1, d), from defeat upwards
TierBoundary(rank) ==
    CASE rank = 1 -> 67 [] rank = 2 -> 90 [] rank = 3 -> 110 [] rank = 4 -> 150
      [] rank = 5 -> 300

\* C21: determine_result is monotonic in the attacker score: for a1 <= a2 and
\* every defender score d the tier of (a2, d) is at least the tier of (a1, d),
\* and a tier is reached exactly from its boundary 0.67, 0.9, 1.1, 1.5, 3.0
\* of a / max(1, d) upwards.
C21_DetermineResultMonotonic ==
    fn_result.fn = "determine_result" =>
        /\ ResultRank(fn_result.value.low) <= ResultRank(fn_result.value.high)
        /\ \A rank \in 1..5 :
              ResultRank(fn_result.value.high) >= rank
              <=> 100 * fn_args.attacker_high
                  >= TierBoundary(rank) * Max(1, fn_args.defender_score)

\* the two scores lie at the two ends of the scale
C21_Witness ==
    /\ fn_result.fn = "determine_result"
    /\ fn_args.defender_score = 10
    /\ fn_result.value.low = "decisive_defeat"
    /\ fn_result.value.high = "decisive_victory"

(***************************************************************************)
(* C22: interceptor rounds.                                                *)
(***************************************************************************)
\* C22: every intercept attempt takes exactly two interceptor rounds: the
\* interceptor_rounds_used of a strike is twice the number of attempts all
\* its SAMs made.
C22_TwoRoundsPerAttempt ==
    Intercepted =>
        fn_result.value.interceptor_rounds_used = 2 * fn_result.value.attempts

(***************************************************************************)
(* C23: time of day and day number.                                        *)
(***************************************************************************)
\* the dawn-to-night cycle a turn belongs to
DayCycle(n) == (n - 1) \div 4

\* C23: for every turn n of 1..16 the record's time_of_day is the value at
\* index (n-1) mod 4 of dawn, day, dusk, night, its day number lies in 1..4,
\* and the four turns of one dawn-to-night cycle carry the same day number.
C23_DayFollowsTheCycle ==
    fn_result.fn = "start_turn" =>
        /\ fn_result.value.record.time_of_day = TimesOfDay[((fn_args.turn - 1) % 4) + 1]
        /\ fn_result.value.record.day \in 1..4
        /\ DayCycle(fn_args.turn) = DayCycle(fn_args.other_turn)
           => fn_result.value.record.day = fn_result.value.other.day

(***************************************************************************)
(* C24: recovery of organization.                                          *)
(***************************************************************************)
RecoveryStep == pc = "recovery" /\ pc' = "end"

\* C24: a unit that fought in the combat phases of the current turn does not
\* receive the organization recovery in that turn's Recovery phase.
C24_NoRecoveryAfterCombat ==
    [][ RecoveryStep =>
          \A u \in current_turn.units_in_combat :
              units'[u].organization = units[u].organization ]_vars

(***************************************************************************)
(* C25: the reload cooldown of a missile battery.                          *)
(***************************************************************************)
\* no battery has fired in the turn being executed: the turn's combat reports
\* hold no missile strike
NoStrikeThisTurn ==
    \A i \in 1..Len(current_turn.combat_reports) :
        current_turn.combat_reports[i].phase # "missiles"

\* C25: the reload cooldown counts down by one every turn: at the end of a
\* later turn in which no battery fired, a battery that is still cooling down
\* from an earlier turn has fewer than reload_time_turns turns left to wait.
C25_CooldownCountsDown ==
    (pc = "end" /\ game_state.turn >= 2 /\ NoStrikeThisTurn) =>
        \A b \in UnitIds : units[b].turns_until_reload < reload_time_turns

(***************************************************************************)
(* C26: the destruction bonus of every unit brought to strength 0.         *)
(***************************************************************************)
\* C26: once a turn has ended, every unit whose strength_current is 0 has had
\* its destruction bonus credited, whatever phase and combat result brought
\* it to zero.
C26_EveryWipedOutUnitCredited ==
    (pc = "idle" /\ game_state.turn >= 1) =>
        \A u \in UnitIds :
            units[u].strength_current = 0 =>
                u \in destroyed_units_counted /\ bonus_credits[u] = 1

(***************************************************************************)
(* C27: the night penalty on the weather modifiers.                        *)
(***************************************************************************)
TurnsStarted == fn_result # NoResult /\ fn_result.fn = "start_turns"

NightTurn(turn) == get_time_of_day(turn - 1) = "night"

\* C27: after start_turn, in a non-night turn the visibility and air-operations
\* modifiers are the base values of the weather, and in a night turn they are
\* the base values times 0.3 and 0.7, applied once, however many nights have
\* passed.
C27_NightPenaltyOnceAndOnlyAtNight ==
    TurnsStarted =>
        LET base == weather_effects(fn_args.weather)
            hm == fn_result.value
        IN  IF NightTurn(fn_args.turns)
            THEN /\ hm.visibility_modifier = (base[1] * 3) \div 10
                 /\ hm.air_ops_modifier = (base[2] * 7) \div 10
            ELSE /\ hm.visibility_modifier = base[1]
                 /\ hm.air_ops_modifier = base[2]

(***************************************************************************)
(* C28: a faction's orders commit only that faction's units.               *)
(***************************************************************************)
\* the step resolves a missile, artillery or ground mission of `faction`
OwnDomainMission(faction) ==
    /\ last_call'.op \in { "missile_strike", "artillery", "ground" }
    /\ last_call'.faction = faction
    /\ last_call'.returned

\* the step neither fires from unit u nor consumes its supply
NotCommitted(u) ==
    /\ units'[u].missiles_remaining = units[u].missiles_remaining
    /\ units'[u].turns_until_reload = units[u].turns_until_reload
    /\ units'[u].supply_level = units[u].supply_level

\* C28: resolving a missile, artillery or ground mission of one faction's
\* order bundle never fires missiles from, nor consumes the supply of, a unit
\* of the other faction, whatever acting unit the order names.
C28_OnlyOwnUnitsCommitted ==
    [][ \A faction \in Factions :
          OwnDomainMission(faction) =>
             \A u \in UnitsOfFaction(Enemy(faction)) : NotCommitted(u) ]_vars

(***************************************************************************)
(* C29: the result of a finished game.                                     *)
(***************************************************************************)
\* C29: once game_over is true it stays true and the winner never changes,
\* whatever further turns are executed.
C29_ResultIsFinal ==
    [][ game_state.game_over =>
           /\ game_state'.game_over
           /\ game_state'.winner = game_state.winner ]_vars

(***************************************************************************)
(* C30: initialize_game after a previous game.                             *)
(***************************************************************************)
\* the step is initialize_game called after at least one turn was played
GameInitialized == pc = "idle" /\ game_state.turn > 0 /\ game_state'.turn = 0

\* C30: initialize_game returns the orchestrator to a fresh-game state: turn
\* counter 0, both victory-point totals 0, game_over false, no current turn,
\* an empty EW environment map and an empty destroyed-unit seen-set.
C30_InitializeGameIsFresh ==
    [][ GameInitialized =>
           /\ game_state'.turn = 0
           /\ game_state'.india_vp = 0 /\ game_state'.pakistan_vp = 0
           /\ ~game_state'.game_over
           /\ current_turn' = NoTurn
           /\ current_ew_effects' = EmptyMap
           /\ destroyed_units_counted' = {} ]_vars

====
